---- MODULE Spec2Model ----
(***************************************************************************)
(* Composite-with-Iterator: a tree of Box / Product components, the lazy   *)
(* depth-first (LIFO stack) and breadth-first (FIFO queue) iterators over  *)
(* it, and Box.netPrice(), which drives an iterator and sums the prices of *)
(* the Products it visits.                                                 *)
(*                                                                         *)
(* A Box is a positive integer, a Product a negative one (object           *)
(* identities).  A JavaScript array is a sequence whose element 1 is       *)
(* index 0; the top of lifoStack is its last element, the front of         *)
(* fifoQueue its first.                                                    *)
(***************************************************************************)
EXTENDS Integers, Sequences, FiniteSets, TLC

\* The client creates at most MaxNodes components (Boxes and Products together).
MaxNodes == 4

\* a Box holds at most MaxChildren children in the child-management runs
MaxChildren == 3

Boxes == 1..MaxNodes
Products == {0 - i : i \in 1..MaxNodes}
Nodes == Boxes \cup Products

DFS == "depth-first-search"
BFS == "breadth-first-search"
IteratorTypes == {DFS, BFS}

VARIABLES
  nBoxes,        \* Boxes constructed so far: 1..nBoxes
  nProducts,     \* Products constructed so far: -1..-nProducts
  children,      \* Box.children of every Box
  iteratorType,  \* Box.iteratorType of every Box (constructor argument)
  it,            \* the iterator object the client holds: class and private fields
  visited,       \* nodes returned by next() since the iterator was built or first() was called
  lastOp,        \* the client's last call on its iterator
  lastRet,       \* what that call returned or threw
  np,            \* the running Box.netPrice() call: position, iterator, totalNetPrice
  call,          \* the client's last child-management or query call, with its result
  second         \* a second iterator object held by the client

vars == <<nBoxes, nProducts, children, iteratorType, it, visited, lastOp, lastRet, np,
          call, second>>

----------------------------------------------------------------------------
\* Results of a call: a component, undefined, a boolean, or a thrown error.

Value(n) == [tag |-> "value", val |-> n]
Undefined == [tag |-> "undefined", val |-> 0]
Bool(b) == [tag |-> IF b THEN "true" ELSE "false", val |-> 0]
IteratorOutOfBoundsError == [tag |-> "IteratorOutOfBoundsError", val |-> 0]

\* Array.prototype.reverse on a copy
Reverse(s) == [i \in 1..Len(s) |-> s[Len(s) + 1 - i]]

\* array[i] with a 0-based index: the element, or undefined when out of range
At(s, i) == IF i >= 0 /\ i < Len(s) THEN Value(s[i + 1]) ELSE Undefined

\* Array.prototype.indexOf (identity comparison), 0-based, -1 when absent
IndexOf(s, x) ==
  IF \E i \in 1..Len(s) : s[i] = x
  THEN (CHOOSE i \in 1..Len(s) : s[i] = x /\ \A j \in 1..(i - 1) : s[j] # x) - 1
  ELSE 0 - 1

\* Array.prototype.splice(i, 1) with a 0-based index
Splice1(s, i) == SubSeq(s, 1, i) \o SubSeq(s, i + 2, Len(s))

Min(a, b) == IF a < b THEN a ELSE b
Max(a, b) == IF a > b THEN a ELSE b

\* Array.prototype.splice(start, deleteCount) with a 0-based start: a negative
\* start counts from the end of the array, and both arguments are clamped
Splice(s, start, deleteCount) ==
  LET len == Len(s)
      actualStart == IF start < 0 THEN Max(len + start, 0) ELSE Min(start, len)
      actualDeleteCount == Min(Max(deleteCount, 0), len - actualStart)
  IN SubSeq(s, 1, actualStart) \o SubSeq(s, actualStart + actualDeleteCount + 1, len)

\* A number used as an array index: an integer, or one of the non-finite numbers
Index(k) == [kind |-> "int", val |-> k]
NonFinite == { [kind |-> k, val |-> 0] : k \in {"Infinity", "-Infinity", "NaN"} }

\* array[index]: only an integer index within range names an element
ArrayGet(s, index) == IF index.kind = "int" THEN At(s, index.val) ELSE Undefined

----------------------------------------------------------------------------
\* Component / Box / Product

\* variant: Box inherits Component.getBox
getBoxInherited(n) == 0

\* Component.getBox returns 0, Box.getBox returns the Box itself
getBox(n) == IF n \in Boxes THEN n ELSE 0

\* variant: an index that names no child raises a RangeError
getChildChecked(ch, n, index) ==
  IF n \in Boxes
  THEN IF index.kind = "int" /\ index.val >= 0 /\ index.val < Len(ch[n])
       THEN ArrayGet(ch[n], index)
       ELSE [tag |-> "RangeError", val |-> 0]
  ELSE Undefined

\* Component.getChild returns undefined, Box.getChild returns children[index]
getChild(ch, n, index) == IF n \in Boxes THEN ArrayGet(ch[n], index) ELSE Undefined

\* Box.getItems
getItems(ch, b) == ch[b]

\* Product.netPrice
ProductNetPrice == 20

\* variant: pushes to the front
appendInFront(ch, b, c) == [ch EXCEPT ![b] = <<c>> \o ch[b]]

\* Box.append
append(ch, b, c) == [ch EXCEPT ![b] = Append(ch[b], c)]

\* variant: splices whatever indexOf returned
removeWithoutCheck(ch, b, c) ==
  [ch EXCEPT ![b] = Splice(ch[b], IndexOf(ch[b], c), 1)]

\* Box.remove
remove(ch, b, c) ==
  LET componentIndex == IndexOf(ch[b], c)
  IN IF componentIndex = 0 - 1 THEN ch
     ELSE [ch EXCEPT ![b] = Splice1(ch[b], componentIndex)]

\* Box.add of the basic Composite
add(ch, b, c) == [ch EXCEPT ![b] = Append(ch[b], c)]

\* Box.remove of the basic Composite: indexOf, then splice, with no test between
removeBasic(ch, b, c) ==
  LET componentIndex == IndexOf(ch[b], c)
  IN [ch EXCEPT ![b] = Splice(ch[b], componentIndex, 1)]

----------------------------------------------------------------------------
\* LazyDepthFirstSearchIterator

\* variant: items.reverse() without the spread, in place on the Box's array
ReverseInPlace(items) == [array |-> Reverse(items), result |-> Reverse(items)]

\* [...items].reverse(): the spread makes a fresh array, reverse() reverses
\* that one in place and returns it.  `array` is the Box's own array after
\* the expression, `result` the array the expression yields.
SpreadReverse(items) == [array |-> items, result |-> Reverse(items)]

\* variant: the collection itself goes on the stack, under its children
buildStackWithRoot(ch, collection) == <<collection>> \o Reverse(getItems(ch, collection))

buildStack(ch, collection) == Reverse(getItems(ch, collection))

\* the children arrays after buildStack()
buildStackTree(ch, collection) ==
  [ch EXCEPT ![collection] = SpreadReverse(getItems(ch, collection)).array]

\* variant: done one element early
DfsIsDoneOffByOne(lifoStack) == Len(lifoStack) <= 1

DfsIsDone(lifoStack) == Len(lifoStack) = 0

\* variant: currentItem() pops the node it returns
DfsCurrentItemPops(lifoStack) ==
  [ret |-> IF DfsIsDone(lifoStack) THEN IteratorOutOfBoundsError
           ELSE At(lifoStack, Len(lifoStack) - 1),
   buf |-> SubSeq(lifoStack, 1, Len(lifoStack) - 1)]

\* the result, and the stack after the call
DfsCurrentItem(lifoStack) ==
  [ret |-> IF DfsIsDone(lifoStack) THEN IteratorOutOfBoundsError
           ELSE At(lifoStack, Len(lifoStack) - 1),
   buf |-> lifoStack]

\* variant: first() refills the stack without reversing the children
DfsFirstUnreversed(ch, collection) ==
  LET lifoStack == getItems(ch, collection)
  IN [ret |-> DfsCurrentItem(lifoStack).ret, buf |-> lifoStack]

DfsFirst(ch, collection) ==
  LET lifoStack == buildStack(ch, collection)
  IN [ret |-> DfsCurrentItem(lifoStack).ret, buf |-> lifoStack]

\* variant: the children are pushed without being reversed
DfsNextUnreversed(ch, lifoStack) ==
  IF Len(lifoStack) = 0
  THEN [ret |-> Undefined, buf |-> lifoStack]
  ELSE LET currentElement == lifoStack[Len(lifoStack)]
           popped == SubSeq(lifoStack, 1, Len(lifoStack) - 1)
           currentElementAsBox == getBox(currentElement)
       IN [ret |-> Value(currentElement),
           buf |-> IF currentElementAsBox # 0
                   THEN popped \o getItems(ch, currentElementAsBox)
                   ELSE popped]

\* variant: next() on an empty stack throws, as currentItem() does
DfsNextThrowsAtEnd(ch, lifoStack) ==
  IF Len(lifoStack) = 0
  THEN [ret |-> IteratorOutOfBoundsError, buf |-> lifoStack]
  ELSE LET currentElement == lifoStack[Len(lifoStack)]
           popped == SubSeq(lifoStack, 1, Len(lifoStack) - 1)
           currentElementAsBox == getBox(currentElement)
       IN [ret |-> Value(currentElement),
           buf |-> IF currentElementAsBox # 0
                   THEN popped \o Reverse(getItems(ch, currentElementAsBox))
                   ELSE popped]

\* the children arrays after next()
DfsNextTree(ch, lifoStack) ==
  IF Len(lifoStack) = 0
  THEN ch
  ELSE LET currentElementAsBox == getBox(lifoStack[Len(lifoStack)])
       IN IF currentElementAsBox # 0
          THEN [ch EXCEPT ![currentElementAsBox] =
                            SpreadReverse(getItems(ch, currentElementAsBox)).array]
          ELSE ch

DfsNext(ch, lifoStack) ==
  IF Len(lifoStack) = 0
  THEN [ret |-> Undefined, buf |-> lifoStack]
  ELSE LET currentElement == lifoStack[Len(lifoStack)]
           popped == SubSeq(lifoStack, 1, Len(lifoStack) - 1)
           currentElementAsBox == getBox(currentElement)
       IN [ret |-> Value(currentElement),
           buf |-> IF currentElementAsBox # 0
                   THEN popped \o Reverse(getItems(ch, currentElementAsBox))
                   ELSE popped]

----------------------------------------------------------------------------
\* LazyBreadthFirstSearchIterator

\* variant: the queue is seeded in reverse, as the stack is
buildQueueReversed(ch, collection) == Reverse(getItems(ch, collection))

\* the children of the Boxes of s, one Box after the other
RECURSIVE itemsOfBoxes(_, _)
itemsOfBoxes(ch, s) ==
  IF s = <<>> THEN <<>>
  ELSE (IF getBox(Head(s)) # 0 THEN getItems(ch, Head(s)) ELSE <<>>) \o itemsOfBoxes(ch, Tail(s))

\* variant: the queue is filled eagerly, with the grandchildren as well
buildQueueTwoLevels(ch, collection) ==
  getItems(ch, collection) \o itemsOfBoxes(ch, getItems(ch, collection))

buildQueue(ch, collection) == getItems(ch, collection)

\* variant: done with one node still in the queue
BfsIsDoneOffByOne(fifoQueue) == Len(fifoQueue) <= 1

BfsIsDone(fifoQueue) == Len(fifoQueue) = 0

\* variant: the current item is the back of the queue, as the top of a stack
BfsCurrentItemLast(fifoQueue) ==
  [ret |-> At(fifoQueue, Len(fifoQueue) - 1), buf |-> fifoQueue]

BfsCurrentItem(fifoQueue) == [ret |-> At(fifoQueue, 0), buf |-> fifoQueue]

BfsFirst(ch, collection) ==
  LET fifoQueue == buildQueue(ch, collection)
  IN [ret |-> At(fifoQueue, 0), buf |-> fifoQueue]

\* variant: the children go to the front of the queue (unshift for push)
BfsNextUnshifts(ch, fifoQueue) ==
  IF Len(fifoQueue) = 0
  THEN [ret |-> Undefined, buf |-> fifoQueue]
  ELSE LET nextElement == Head(fifoQueue)
           shifted == Tail(fifoQueue)
           nextElementAsBox == getBox(nextElement)
       IN [ret |-> Value(nextElement),
           buf |-> IF nextElementAsBox # 0
                   THEN getItems(ch, nextElementAsBox) \o shifted
                   ELSE shifted]

\* variant: the children of a dequeued Box are not enqueued
BfsNextShallow(ch, fifoQueue) ==
  IF Len(fifoQueue) = 0
  THEN [ret |-> Undefined, buf |-> fifoQueue]
  ELSE [ret |-> Value(Head(fifoQueue)), buf |-> Tail(fifoQueue)]

BfsNext(ch, fifoQueue) ==
  IF Len(fifoQueue) = 0
  THEN [ret |-> Undefined, buf |-> fifoQueue]
  ELSE LET nextElement == Head(fifoQueue)
           shifted == Tail(fifoQueue)
           nextElementAsBox == getBox(nextElement)
       IN [ret |-> Value(nextElement),
           buf |-> IF nextElementAsBox # 0
                   THEN shifted \o getItems(ch, nextElementAsBox)
                   ELSE shifted]

----------------------------------------------------------------------------
\* NullIterator: the iterator of a component that has no children

NullIterator == [class |-> "null", collection |-> 0, buf |-> <<>>]

NullFirst == [ret |-> Undefined, buf |-> <<>>]

NullNext == [ret |-> Undefined, buf |-> <<>>]

NullCurrentItem == [ret |-> Undefined, buf |-> <<>>]

\* variant: never done
NullIsDoneNever == FALSE

NullIsDone == TRUE

----------------------------------------------------------------------------
\* The Iterator interface, dispatched on the iterator's class

\* Box.getIterator: the class chosen by iteratorType, then its constructor
NewIterator(ch, type, collection) ==
  IF type = BFS
  THEN [class |-> BFS, collection |-> collection, buf |-> buildQueue(ch, collection)]
  ELSE [class |-> DFS, collection |-> collection, buf |-> buildStack(ch, collection)]

IterFirst(ch, i) ==
  CASE i.class = "null" -> NullFirst
    [] i.class = BFS -> BfsFirst(ch, i.collection)
    [] OTHER -> DfsFirst(ch, i.collection)

IterNext(ch, i) ==
  CASE i.class = "null" -> NullNext
    [] i.class = BFS -> BfsNext(ch, i.buf)
    [] OTHER -> DfsNext(ch, i.buf)

IterCurrentItem(i) ==
  CASE i.class = "null" -> NullCurrentItem
    [] i.class = BFS -> BfsCurrentItem(i.buf)
    [] OTHER -> DfsCurrentItem(i.buf)

IterIsDone(i) ==
  CASE i.class = "null" -> NullIsDone
    [] i.class = BFS -> BfsIsDone(i.buf)
    [] OTHER -> DfsIsDone(i.buf)

\* The children arrays after the constructor or first(), and after next().
\* The breadth-first iterator spreads getItems() into its own queue, the
\* NullIterator holds no collection.
IterBuildTree(ch, class, collection) ==
  IF class = DFS THEN buildStackTree(ch, collection) ELSE ch

IterNextTree(ch, i) ==
  IF i.class = DFS THEN DfsNextTree(ch, i.buf) ELSE ch

NoIterator == [class |-> "none", collection |-> 0, buf |-> <<>>]

----------------------------------------------------------------------------
\* The shape of the tree (used by the client's construction discipline and
\* by the properties; the program itself keeps no such information).

ChildSet(ch, b) == {ch[b][i] : i \in 1..Len(ch[b])}

RECURSIVE ReachFrom(_, _, _)
ReachFrom(ch, S, k) ==
  IF k = 0 THEN S
  ELSE ReachFrom(ch, S \cup UNION {ChildSet(ch, x) : x \in S \cap Boxes}, k - 1)

\* every node below b
Descendants(ch, b) == ReachFrom(ch, ChildSet(ch, b), MaxNodes)

HasParent(ch, n) == \E b \in Boxes : n \in ChildSet(ch, b)

\* appending c to b keeps the structure a forest of single-parent trees
KeepsTree(ch, b, c) ==
  /\ c # b
  /\ ~HasParent(ch, c)
  /\ (c \in Boxes => b \notin Descendants(ch, c))

----------------------------------------------------------------------------
NpIdle == [pc |-> "idle", box |-> 0, iter |-> NoIterator, total |-> 0]

\* no call recorded / no second iterator
NoCall ==
  [op |-> "none", on |-> 0, arg |-> 0, index |-> Index(0), before |-> <<>>, ret |-> Undefined]
NoSecond == [it |-> NoIterator, visited |-> <<>>, lastOp |-> "none", lastRet |-> Undefined]

\* the components constructed so far
Created == (1..nBoxes) \cup {0 - i : i \in 1..nProducts}

Init ==
  /\ nBoxes = 0
  /\ nProducts = 0
  /\ children = [b \in Boxes |-> <<>>]
  /\ iteratorType = [b \in Boxes |-> DFS]
  /\ it = NoIterator
  /\ visited = <<>>
  /\ lastOp = "none"
  /\ lastRet = Undefined
  /\ np = NpIdle
  /\ call = NoCall
  /\ second = NoSecond

\* The program is synchronous: while netPrice() runs, nothing else does.
ClientTurn == np.pc = "idle"

\* new Box(name, iteratorType)
NewBox(type) ==
  /\ ClientTurn
  /\ nBoxes + nProducts < MaxNodes
  /\ nBoxes' = nBoxes + 1
  /\ children' = [children EXCEPT ![nBoxes + 1] = <<>>]
  /\ iteratorType' = [iteratorType EXCEPT ![nBoxes + 1] = type]
  /\ UNCHANGED <<nProducts, it, visited, lastOp, lastRet, np, call, second>>

\* new Product(name)
NewProduct ==
  /\ ClientTurn
  /\ nBoxes + nProducts < MaxNodes
  /\ nProducts' = nProducts + 1
  /\ UNCHANGED <<nBoxes, children, iteratorType, it, visited, lastOp, lastRet, np, call, second>>

\* box.append(component)
DoAppend(b, c) ==
  /\ ClientTurn
  /\ children' = append(children, b, c)
  /\ UNCHANGED <<nBoxes, nProducts, iteratorType, it, visited, lastOp, lastRet, np, second>>

\* box.remove(component)
DoRemove(b, c) ==
  /\ ClientTurn
  /\ children' = remove(children, b, c)
  /\ UNCHANGED <<nBoxes, nProducts, iteratorType, it, visited, lastOp, lastRet, np, second>>

\* iterator = box.getIterator()
GetIterator(b) ==
  /\ ClientTurn
  /\ it' = NewIterator(children, iteratorType[b], b)
  /\ children' = IterBuildTree(children, iteratorType[b], b)
  /\ visited' = <<>>
  /\ lastOp' = "getIterator"
  /\ lastRet' = Undefined
  /\ UNCHANGED <<nBoxes, nProducts, iteratorType, np, call, second>>

\* iterator = product.getIterator(): Component.getIterator
ProductGetIterator(p) ==
  /\ ClientTurn
  /\ it' = NullIterator
  /\ visited' = <<>>
  /\ lastOp' = "getIterator"
  /\ lastRet' = Undefined
  /\ UNCHANGED <<nBoxes, nProducts, children, iteratorType, np, call, second>>

\* iterator.first()
First ==
  /\ ClientTurn
  /\ it.class # "none"
  /\ LET r == IterFirst(children, it)
     IN /\ it' = [it EXCEPT !.buf = r.buf]
        /\ lastRet' = r.ret
  /\ children' = IterBuildTree(children, it.class, it.collection)
  /\ visited' = <<>>
  /\ lastOp' = "first"
  /\ UNCHANGED <<nBoxes, nProducts, iteratorType, np, call, second>>

\* iterator.next()
Next_ ==
  /\ ClientTurn
  /\ it.class # "none"
  /\ LET r == IterNext(children, it)
     IN /\ it' = [it EXCEPT !.buf = r.buf]
        /\ lastRet' = r.ret
        /\ visited' = IF r.ret.tag = "value" THEN Append(visited, r.ret.val) ELSE visited
  /\ children' = IterNextTree(children, it)
  /\ lastOp' = "next"
  /\ UNCHANGED <<nBoxes, nProducts, iteratorType, np, call, second>>

\* iterator.currentItem()
CurrentItem ==
  /\ ClientTurn
  /\ it.class # "none"
  /\ LET r == IterCurrentItem(it)
     IN /\ it' = [it EXCEPT !.buf = r.buf]
        /\ lastRet' = r.ret
  /\ lastOp' = "currentItem"
  /\ UNCHANGED <<nBoxes, nProducts, children, iteratorType, visited, np, call, second>>

\* iterator.isDone()
IsDone ==
  /\ ClientTurn
  /\ it.class # "none"
  /\ lastRet' = Bool(IterIsDone(it))
  /\ lastOp' = "isDone"
  /\ UNCHANGED <<nBoxes, nProducts, children, iteratorType, it, visited, np, call, second>>

----------------------------------------------------------------------------
\* Box.netPrice(): getIterator(), then the for loop, one iteration per step.

\* const iterator = this.getIterator(); totalNetPrice = 0; iterator.first()
NetPriceCall(b) ==
  /\ ClientTurn
  /\ LET iterator == NewIterator(children, iteratorType[b], b)
         r == IterFirst(children, iterator)
     IN np' = [pc |-> IF r.ret = IteratorOutOfBoundsError THEN "threw" ELSE "loop",
               box |-> b,
               iter |-> [iterator EXCEPT !.buf = r.buf],
               total |-> 0]
  /\ children' = IterBuildTree(IterBuildTree(children, iteratorType[b], b), iteratorType[b], b)
  /\ UNCHANGED <<nBoxes, nProducts, iteratorType, it, visited, lastOp, lastRet, call, second>>

\* one pass of the loop: the test !isDone(), the body, then next();
\* or the exit and return totalNetPrice
NetPriceLoop ==
  /\ np.pc = "loop"
  /\ IF IterIsDone(np.iter)
     THEN np' = [np EXCEPT !.pc = "done"]
     ELSE LET cur == IterCurrentItem(np.iter)
              nextItem == cur.ret.val
              sum == IF getBox(nextItem) = 0 THEN np.total + ProductNetPrice
                     ELSE np.total
              r == IterNext(children, [np.iter EXCEPT !.buf = cur.buf])
          IN IF cur.ret.tag # "value"
             THEN np' = [np EXCEPT !.pc = "threw"]
             ELSE np' = [np EXCEPT !.iter.buf = r.buf, !.total = sum]
  /\ children' = IF IterIsDone(np.iter) THEN children ELSE IterNextTree(children, np.iter)
  /\ UNCHANGED <<nBoxes, nProducts, iteratorType, it, visited, lastOp, lastRet, call, second>>

\* the caller has the result (or the error) and goes on
NetPriceReturn ==
  /\ np.pc \in {"done", "threw"}
  /\ np' = NpIdle
  /\ UNCHANGED <<nBoxes, nProducts, children, iteratorType, it, visited, lastOp, lastRet,
               call, second>>

----------------------------------------------------------------------------
\* The client builds the tree first and traverses it afterwards.
Building == it.class = "none"

\* The client picks one strategy and constructs every Box with it.
OneStrategy(type) == nBoxes = 0 \/ type = iteratorType[1]

Next ==
  \/ \E type \in IteratorTypes : Building /\ OneStrategy(type) /\ NewBox(type)
  \/ Building /\ NewProduct
  \/ \E b \in 1..nBoxes, c \in Created :
       Building /\ KeepsTree(children, b, c) /\ DoAppend(b, c) /\ UNCHANGED call
  \/ \E b \in 1..nBoxes, c \in Created : Building /\ DoRemove(b, c) /\ UNCHANGED call
  \/ \E b \in 1..nBoxes : GetIterator(b)
  \/ First
  \/ Next_
  \/ CurrentItem
  \/ IsDone
  \/ \E b \in 1..nBoxes : Building /\ NetPriceCall(b)
  \/ NetPriceLoop
  \/ NetPriceReturn

Spec == Init /\ [][Next]_vars

\* netPrice() is a synchronous for loop: once entered, it keeps running
\* until it returns or throws.
SpecFair == Spec /\ WF_vars(NetPriceLoop)

----------------------------------------------------------------------------
\* The visiting-order test of the suite: the client constructs Boxes A, B, E
\* and Products F, G, C, D and appends them into A{B{E{F,G}},C,D}.  Appends
\* to different Boxes commute, so the client may issue them in any order.

getName(n) ==
  CASE n = 1 -> "A" [] n = 2 -> "B" [] n = 3 -> "E"
    [] n = 0 - 1 -> "F" [] n = 0 - 2 -> "G" [] n = 0 - 3 -> "C" [] n = 0 - 4 -> "D"
    [] OTHER -> "?"

ScenarioAppends ==
  { <<3, 0 - 1>>, <<3, 0 - 2>>, <<2, 3>>, <<1, 2>>, <<1, 0 - 3>>, <<1, 0 - 4>> }

ScenarioTree ==
  [b \in Boxes |-> CASE b = 1 -> <<2, 0 - 3, 0 - 4>>
                     [] b = 2 -> <<3>>
                     [] b = 3 -> <<0 - 1, 0 - 2>>
                     [] OTHER -> <<>>]

ScenarioInit ==
  /\ nBoxes = 3
  /\ nProducts = 4
  /\ children = [b \in Boxes |-> <<>>]
  /\ \E type \in IteratorTypes : iteratorType = [b \in Boxes |-> type]
  /\ it = NoIterator
  /\ visited = <<>>
  /\ lastOp = "none"
  /\ lastRet = Undefined
  /\ np = NpIdle
  /\ call = NoCall
  /\ second = NoSecond

ScenarioNext ==
  \/ \E e \in ScenarioAppends :
       Building /\ ~HasParent(children, e[2]) /\ DoAppend(e[1], e[2]) /\ UNCHANGED call
  \/ \E b \in 1..nBoxes : GetIterator(b)
  \/ \E p \in Created \ Boxes : ProductGetIterator(p)
  \/ First
  \/ Next_
  \/ CurrentItem
  \/ IsDone

SpecScenario == ScenarioInit /\ [][ScenarioNext]_vars

----------------------------------------------------------------------------
\* Child management.  The client holds two Boxes and two Products, and calls
\* append / remove on the first Box with any of the other components, in any
\* order and as often as it likes (a component may be appended twice), and
\* getChild / getBox on any component.

ChildrenInit ==
  /\ nBoxes = 2
  /\ nProducts = 2
  /\ children = [b \in Boxes |-> <<>>]
  /\ iteratorType = [b \in Boxes |-> DFS]
  /\ it = NoIterator
  /\ visited = <<>>
  /\ lastOp = "none"
  /\ lastRet = Undefined
  /\ np = NpIdle
  /\ call = NoCall
  /\ second = NoSecond

\* the indices the client passes to getChild
Indices == { Index(k) : k \in (0 - 2)..(MaxChildren + 1) } \cup NonFinite

\* box.append(component), observed
AppendCall(b, c) ==
  /\ DoAppend(b, c)
  /\ call' = [op |-> "append", on |-> b, arg |-> c, index |-> Index(0),
              before |-> children[b], ret |-> Undefined]

\* box.remove(component), observed
RemoveCall(b, c) ==
  /\ DoRemove(b, c)
  /\ call' = [op |-> "remove", on |-> b, arg |-> c, index |-> Index(0),
              before |-> children[b], ret |-> Undefined]

\* component.getChild(index)
GetChildCall(n, index) ==
  /\ ClientTurn
  /\ call' = [op |-> "getChild", on |-> n, arg |-> 0, index |-> index,
              before |-> IF n \in Boxes THEN children[n] ELSE <<>>,
              ret |-> getChild(children, n, index)]
  /\ UNCHANGED <<nBoxes, nProducts, children, iteratorType, it, visited, lastOp, lastRet,
               np, second>>

\* component.getBox()
GetBoxCall(n) ==
  /\ ClientTurn
  /\ call' = [op |-> "getBox", on |-> n, arg |-> 0, index |-> Index(0),
              before |-> IF n \in Boxes THEN children[n] ELSE <<>>,
              ret |-> Value(getBox(n))]
  /\ UNCHANGED <<nBoxes, nProducts, children, iteratorType, it, visited, lastOp, lastRet,
               np, second>>

ChildrenNext ==
  \/ \E c \in Created \ {1} : Len(children[1]) < MaxChildren /\ AppendCall(1, c)
  \/ \E c \in Created \ {1} : RemoveCall(1, c)
  \/ \E n \in Created, index \in Indices : GetChildCall(n, index)
  \/ \E n \in Created : GetBoxCall(n)

SpecChildren == ChildrenInit /\ [][ChildrenNext]_vars

\* The basic Composite: the same client with the Box of that module, whose
\* operations are add / remove / getChild / getBox.

\* box.add(component)
AddCall(b, c) ==
  /\ ClientTurn
  /\ children' = add(children, b, c)
  /\ call' = [op |-> "add", on |-> b, arg |-> c, index |-> Index(0),
              before |-> children[b], ret |-> Undefined]
  /\ UNCHANGED <<nBoxes, nProducts, iteratorType, it, visited, lastOp, lastRet, np, second>>

\* box.remove(component)
RemoveBasicCall(b, c) ==
  /\ ClientTurn
  /\ children' = removeBasic(children, b, c)
  /\ call' = [op |-> "remove", on |-> b, arg |-> c, index |-> Index(0),
              before |-> children[b], ret |-> Undefined]
  /\ UNCHANGED <<nBoxes, nProducts, iteratorType, it, visited, lastOp, lastRet, np, second>>

CompositeNext ==
  \/ \E c \in Created \ {1} : Len(children[1]) < MaxChildren /\ AddCall(1, c)
  \/ \E c \in Created \ {1} : RemoveBasicCall(1, c)
  \/ \E n \in Created, index \in Indices : GetChildCall(n, index)
  \/ \E n \in Created : GetBoxCall(n)

SpecComposite == ChildrenInit /\ [][CompositeNext]_vars

----------------------------------------------------------------------------
\* BoxWithBrokenBFSIterator: a Box whose netPrice() adds nextItem.netPrice()
\* for every node its iterator visits.  The result is the total, or the error
\* that came out of an iterator.

RECURSIVE brokenNetPrice(_, _, _), BrokenLoop(_, _, _, _), BrokenLoopLeavesOnly(_, _, _, _),
          BrokenLoopOverSoundBoxes(_, _, _, _)

\* variant: the loop of Box.netPrice, which adds the price of Products only
BrokenLoopLeavesOnly(ch, types, i, total) ==
  IF IterIsDone(i) THEN Value(total)
  ELSE LET cur == IterCurrentItem(i)
           nextItem == cur.ret.val
           r == IterNext(ch, [i EXCEPT !.buf = cur.buf])
       IN IF cur.ret.tag # "value" THEN cur.ret
          ELSE BrokenLoopLeavesOnly(ch, types, [i EXCEPT !.buf = r.buf],
                                    IF getBox(nextItem) = 0 THEN total + ProductNetPrice
                                    ELSE total)

\* variant: only this loop is naive, the netPrice() of a nested Box is the
\* price of its Products
BrokenLoopOverSoundBoxes(ch, types, i, total) ==
  IF IterIsDone(i) THEN Value(total)
  ELSE LET cur == IterCurrentItem(i)
           nextItem == cur.ret.val
           price == IF nextItem \in Boxes
                    THEN ProductNetPrice * Cardinality(Descendants(ch, nextItem) \cap Products)
                    ELSE ProductNetPrice
           r == IterNext(ch, [i EXCEPT !.buf = cur.buf])
       IN IF cur.ret.tag # "value" THEN cur.ret
          ELSE BrokenLoopOverSoundBoxes(ch, types, [i EXCEPT !.buf = r.buf], total + price)

\* for (...; !iterator.isDone(); iterator.next()) totalNetPrice += nextItem.netPrice()
BrokenLoop(ch, types, i, total) ==
  IF IterIsDone(i) THEN Value(total)
  ELSE LET cur == IterCurrentItem(i)
           nextItem == cur.ret.val
           price == brokenNetPrice(ch, types, nextItem)
           r == IterNext(ch, [i EXCEPT !.buf = cur.buf])
       IN IF cur.ret.tag # "value" THEN cur.ret
          ELSE IF price.tag # "value" THEN price
          ELSE BrokenLoop(ch, types, [i EXCEPT !.buf = r.buf], total + price.val)

\* netPrice() of a component: Product.netPrice, or the override in the Box
brokenNetPrice(ch, types, n) ==
  IF n \notin Boxes THEN Value(ProductNetPrice)
  ELSE LET iterator == NewIterator(ch, types[n], n)
           r == IterFirst(ch, iterator)
       IN IF r.ret = IteratorOutOfBoundsError THEN r.ret
          ELSE BrokenLoop(ch, types, [iterator EXCEPT !.buf = r.buf], 0)

\* The tests build Big{Medium{Small{P,P}},P,P} (Boxes 1, 2, 3) and, for the
\* broken netPrice, Big{Medium{P,P},P,P}; every Box is of the broken class.
NaiveAppends == ScenarioAppends \cup { <<2, 0 - 1>>, <<2, 0 - 2>> }

NaiveTestTree ==
  [b \in Boxes |-> CASE b = 1 -> <<2, 0 - 3, 0 - 4>>
                     [] b = 2 -> <<0 - 1, 0 - 2>>
                     [] OTHER -> <<>>]

\* totalNetPrice = box.netPrice()
BrokenNetPriceCall(b) ==
  /\ ClientTurn
  /\ call' = [op |-> "netPrice", on |-> b, arg |-> 0, index |-> Index(0),
              before |-> children[b],
              ret |-> brokenNetPrice(children, iteratorType, b)]
  /\ UNCHANGED <<nBoxes, nProducts, children, iteratorType, it, visited, lastOp, lastRet,
               np, second>>

NaiveNext ==
  \/ \E e \in NaiveAppends : ~HasParent(children, e[2]) /\ AppendCall(e[1], e[2])
  \/ \E b \in 1..nBoxes : BrokenNetPriceCall(b)

SpecNaive == ScenarioInit /\ [][NaiveNext]_vars

----------------------------------------------------------------------------
\* Two iterators at once.  The tree of one of the tests is built; the client
\* asks two Boxes (or one Box twice) for an iterator and calls the operations
\* of the two iterator objects in any order.  `it` is the first object and
\* `second.it` the other; each has its own stack or queue.

TwoInit ==
  /\ nBoxes = 3
  /\ nProducts = 4
  /\ children \in {ScenarioTree, NaiveTestTree}
  /\ \E t1 \in IteratorTypes, t2 \in IteratorTypes, t3 \in IteratorTypes :
       iteratorType = [b \in Boxes |-> CASE b = 1 -> t1 [] b = 2 -> t2 [] b = 3 -> t3
                                         [] OTHER -> DFS]
  /\ it = NoIterator
  /\ visited = <<>>
  /\ lastOp = "none"
  /\ lastRet = Undefined
  /\ np = NpIdle
  /\ call = NoCall
  /\ second = NoSecond

\* other = box.getIterator()
SecondGetIterator(b) ==
  /\ ClientTurn
  /\ second' = [it |-> NewIterator(children, iteratorType[b], b), visited |-> <<>>,
                lastOp |-> "getIterator", lastRet |-> Undefined]
  /\ UNCHANGED <<nBoxes, nProducts, children, iteratorType, it, visited, lastOp, lastRet,
               np, call>>

\* other.first()
SecondFirst ==
  /\ ClientTurn
  /\ second.it.class # "none"
  /\ LET r == IterFirst(children, second.it)
     IN second' = [it |-> [second.it EXCEPT !.buf = r.buf], visited |-> <<>>,
                   lastOp |-> "first", lastRet |-> r.ret]
  /\ UNCHANGED <<nBoxes, nProducts, children, iteratorType, it, visited, lastOp, lastRet,
               np, call>>

\* variant: the stack / queue is one array shared by all iterator objects
SecondNextOnSharedArray ==
  /\ ClientTurn
  /\ second.it.class # "none"
  /\ it.class # "none"
  /\ LET r == IterNext(children, [second.it EXCEPT !.buf = it.buf])
     IN /\ second' = [it |-> [second.it EXCEPT !.buf = r.buf],
                      visited |-> IF r.ret.tag = "value"
                                  THEN Append(second.visited, r.ret.val)
                                  ELSE second.visited,
                      lastOp |-> "next", lastRet |-> r.ret]
        /\ it' = [it EXCEPT !.buf = r.buf]
  /\ UNCHANGED <<nBoxes, nProducts, children, iteratorType, visited, lastOp, lastRet,
               np, call>>

\* other.next()
SecondNext ==
  /\ ClientTurn
  /\ second.it.class # "none"
  /\ LET r == IterNext(children, second.it)
     IN second' = [it |-> [second.it EXCEPT !.buf = r.buf],
                   visited |-> IF r.ret.tag = "value"
                               THEN Append(second.visited, r.ret.val)
                               ELSE second.visited,
                   lastOp |-> "next", lastRet |-> r.ret]
  /\ UNCHANGED <<nBoxes, nProducts, children, iteratorType, it, visited, lastOp, lastRet,
               np, call>>

\* other.currentItem()
SecondCurrentItem ==
  /\ ClientTurn
  /\ second.it.class # "none"
  /\ LET r == IterCurrentItem(second.it)
     IN second' = [second EXCEPT !.it.buf = r.buf, !.lastOp = "currentItem",
                                 !.lastRet = r.ret]
  /\ UNCHANGED <<nBoxes, nProducts, children, iteratorType, it, visited, lastOp, lastRet,
               np, call>>

\* other.isDone()
SecondIsDone ==
  /\ ClientTurn
  /\ second.it.class # "none"
  /\ second' = [second EXCEPT !.lastOp = "isDone",
                              !.lastRet = Bool(IterIsDone(second.it))]
  /\ UNCHANGED <<nBoxes, nProducts, children, iteratorType, it, visited, lastOp, lastRet,
               np, call>>

TwoNext ==
  \/ \E b \in 1..nBoxes : Building /\ GetIterator(b)
  \/ First
  \/ Next_
  \/ CurrentItem
  \/ IsDone
  \/ \E b \in 1..nBoxes : second.it.class = "none" /\ SecondGetIterator(b)
  \/ SecondFirst
  \/ SecondNext
  \/ SecondCurrentItem
  \/ SecondIsDone

SpecTwo == TwoInit /\ [][TwoNext]_vars

----------------------------------------------------------------------------
\* ListIterator: the iterator a depth-first Box of composite-with-iterator/
\* index.ts hands out, and the ListIterator of the Iterator pattern's
\* documentation.  It keeps an index into the collection's items and reads
\* the collection at every call.

ListIterator(collection) ==
  [class |-> "list", collection |-> collection, buf |-> <<>>, current |-> 0]

ListFirst(ch, i) == [ret |-> At(getItems(ch, i.collection), 0), current |-> 0]

ListNext(ch, i) ==
  [ret |-> At(getItems(ch, i.collection), i.current + 1), current |-> i.current + 1]

\* variant: done on the last item (the test current === getCount() - 1)
ListIsDoneOnLastItem(ch, i) == i.current = Len(getItems(ch, i.collection)) - 1

\* variant: without the special case of the empty collection
ListIsDoneAtCount(ch, i) == i.current >= Len(getItems(ch, i.collection))

ListIsDone(ch, i) ==
  LET collectionCount == Len(getItems(ch, i.collection))
  IN IF i.current = 0 /\ collectionCount = 0 THEN FALSE
     ELSE IF i.current >= collectionCount THEN TRUE
     ELSE FALSE

\* variant: this.collection[this.current], an index into the aggregate
\* object instead of its items, which is undefined at every position
ListCurrentItemOfAggregate(ch, i) == [ret |-> Undefined, current |-> i.current]

ListCurrentItem(ch, i) ==
  [ret |-> IF ListIsDone(ch, i) THEN IteratorOutOfBoundsError
           ELSE At(getItems(ch, i.collection), i.current),
   current |-> i.current]

\* iterator = box.getIterator() on a depth-first Box
ListGetIterator(b) ==
  /\ ClientTurn
  /\ iteratorType[b] = DFS
  /\ it' = ListIterator(b)
  /\ visited' = <<>>
  /\ lastOp' = "getIterator"
  /\ lastRet' = Undefined
  /\ UNCHANGED <<nBoxes, nProducts, children, iteratorType, np, call, second>>

\* iterator.first()
DoListFirst ==
  /\ ClientTurn
  /\ it.class = "list"
  /\ LET r == ListFirst(children, it)
     IN /\ it' = [it EXCEPT !.current = r.current]
        /\ lastRet' = r.ret
  /\ visited' = <<>>
  /\ lastOp' = "first"
  /\ UNCHANGED <<nBoxes, nProducts, children, iteratorType, np, call, second>>

\* iterator.next(); visited logs what every next() since first() returned,
\* with 0 for undefined
DoListNext ==
  /\ ClientTurn
  /\ it.class = "list"
  /\ LET r == ListNext(children, it)
     IN /\ it' = [it EXCEPT !.current = r.current]
        /\ lastRet' = r.ret
        /\ visited' = Append(visited, r.ret.val)
  /\ lastOp' = "next"
  /\ UNCHANGED <<nBoxes, nProducts, children, iteratorType, np, call, second>>

\* iterator.currentItem()
DoListCurrentItem ==
  /\ ClientTurn
  /\ it.class = "list"
  /\ lastRet' = ListCurrentItem(children, it).ret
  /\ lastOp' = "currentItem"
  /\ UNCHANGED <<nBoxes, nProducts, children, iteratorType, it, visited, np, call, second>>

\* iterator.isDone()
DoListIsDone ==
  /\ ClientTurn
  /\ it.class = "list"
  /\ lastRet' = Bool(ListIsDone(children, it))
  /\ lastOp' = "isDone"
  /\ UNCHANGED <<nBoxes, nProducts, children, iteratorType, it, visited, np, call, second>>

\* The documented client loop
\*   for (iterator.first(); !iterator.isDone(); iterator.next()) use(iterator.currentItem())
\* np.seen is what the body was given, pass after pass.

\* const iterator = collection.getIterator(); iterator.first()
ClientLoopCall(b) ==
  /\ ClientTurn
  /\ iteratorType[b] = DFS
  /\ LET iterator == ListIterator(b)
         r == ListFirst(children, iterator)
     IN np' = [pc |-> "loop", box |-> b,
               iter |-> [iterator EXCEPT !.current = r.current],
               total |-> 0, seen |-> <<>>]
  /\ UNCHANGED <<nBoxes, nProducts, children, iteratorType, it, visited, lastOp, lastRet,
               call, second>>

\* one pass: the test !isDone(), the body with currentItem(), then next();
\* or the exit
ClientLoopStep ==
  /\ np.pc = "loop"
  /\ np.iter.class = "list"
  /\ IF ListIsDone(children, np.iter)
     THEN np' = [np EXCEPT !.pc = "done"]
     ELSE LET cur == ListCurrentItem(children, np.iter)
              r == ListNext(children, np.iter)
          IN IF cur.ret = IteratorOutOfBoundsError
             THEN np' = [np EXCEPT !.pc = "threw"]
             ELSE np' = [np EXCEPT !.iter.current = r.current,
                                   !.total = np.total + 1,
                                   !.seen = Append(np.seen, cur.ret)]
  /\ UNCHANGED <<nBoxes, nProducts, children, iteratorType, it, visited, lastOp, lastRet,
               call, second>>

\* the loop is over and the client goes on
ClientLoopReturn ==
  /\ np.pc \in {"done", "threw"}
  /\ np.iter.class = "list"
  /\ np' = NpIdle
  /\ UNCHANGED <<nBoxes, nProducts, children, iteratorType, it, visited, lastOp, lastRet,
               call, second>>

\* The client fills the first Box (the second stays empty), then traverses.
ListNext_ ==
  \/ \E c \in Created \ {1} :
       Building /\ Len(children[1]) < MaxChildren /\ DoAppend(1, c) /\ UNCHANGED call
  \/ \E b \in 1..nBoxes : ListGetIterator(b)
  \/ DoListFirst
  \/ it.class = "list" /\ Len(visited) <= Len(children[it.collection]) /\ DoListNext
  \/ DoListCurrentItem
  \/ DoListIsDone
  \/ \E b \in 1..nBoxes : Building /\ ClientLoopCall(b)
  \/ ClientLoopStep
  \/ ClientLoopReturn

SpecList == ChildrenInit /\ [][ListNext_]_vars

----------------------------------------------------------------------------
\* The three netPrice() of the repository, each as the loop it runs.  The
\* result is the total, or the error that ended the call.

\* undefined.netPrice()
TypeError == [tag |-> "TypeError", val |-> 0]

RECURSIVE LazyLoop(_, _, _)
\* part_004: the loop of Box.netPrice over a lazy iterator, Products only
LazyLoop(ch, i, total) ==
  IF IterIsDone(i) THEN Value(total)
  ELSE LET cur == IterCurrentItem(i)
           nextItem == cur.ret.val
           r == IterNext(ch, [i EXCEPT !.buf = cur.buf])
       IN IF cur.ret.tag # "value" THEN cur.ret
          ELSE LazyLoop(ch, [i EXCEPT !.buf = r.buf],
                        IF getBox(nextItem) = 0 THEN total + ProductNetPrice ELSE total)

\* variant: a breadth-first Box prices its own Products only
lazyNetPriceShallowUnderBfs(ch, types, b) ==
  IF types[b] = BFS
  THEN Value(ProductNetPrice * Cardinality({k \in 1..Len(ch[b]) : getBox(ch[b][k]) = 0}))
  ELSE LET iterator == NewIterator(ch, types[b], b)
           r == IterFirst(ch, iterator)
       IN IF r.ret = IteratorOutOfBoundsError THEN r.ret
          ELSE LazyLoop(ch, [iterator EXCEPT !.buf = r.buf], 0)

\* part_004: Box.netPrice
lazyNetPrice(ch, types, b) ==
  LET iterator == NewIterator(ch, types[b], b)
      r == IterFirst(ch, iterator)
  IN IF r.ret = IteratorOutOfBoundsError THEN r.ret
     ELSE LazyLoop(ch, [iterator EXCEPT !.buf = r.buf], 0)

RECURSIVE indexNetPrice(_, _, _), IndexListLoop(_, _, _, _)

\* index.ts: the loop of Box.netPrice of a depth-first Box, over a
\* ListIterator, adding nextItem.netPrice() for every item
IndexListLoop(ch, types, i, total) ==
  IF ListIsDone(ch, i) THEN Value(total)
  ELSE LET cur == ListCurrentItem(ch, i)
           price == indexNetPrice(ch, types, cur.ret.val)
           r == ListNext(ch, i)
       IN IF cur.ret.tag = "undefined" THEN TypeError
          ELSE IF cur.ret.tag # "value" THEN cur.ret
          ELSE IF price.tag # "value" THEN price
          ELSE IndexListLoop(ch, types, [i EXCEPT !.current = r.current], total + price.val)

\* index.ts: netPrice() of a component: Product.netPrice, or Box.netPrice
\* with the iterator Box.getIterator chooses
indexNetPrice(ch, types, n) ==
  IF n \notin Boxes THEN Value(ProductNetPrice)
  ELSE IF types[n] = BFS
  THEN lazyNetPrice(ch, types, n)
  ELSE LET iterator == ListIterator(n)
           r == ListFirst(ch, iterator)
       IN IndexListLoop(ch, types, [iterator EXCEPT !.current = r.current], 0)

\* composite-with-iterator.ts: ListIterator.isDone
OldListIsDone(ch, i) == i.current >= Len(getItems(ch, i.collection))

\* composite-with-iterator.ts: ListIterator.currentItem
OldListCurrentItem(ch, i) ==
  [ret |-> IF OldListIsDone(ch, i) THEN IteratorOutOfBoundsError
           ELSE At(getItems(ch, i.collection), i.current),
   current |-> i.current]

RECURSIVE oldNetPrice(_, _), OldLoop(_, _, _), OldLoopSkipsBoxes(_, _, _)

\* variant: the loop passes over the Boxes it meets
OldLoopSkipsBoxes(ch, i, total) ==
  IF OldListIsDone(ch, i) THEN Value(total)
  ELSE LET cur == OldListCurrentItem(ch, i)
           r == ListNext(ch, i)
       IN IF cur.ret.tag # "value" THEN TypeError
          ELSE OldLoopSkipsBoxes(ch, [i EXCEPT !.current = r.current],
                                 IF getBox(cur.ret.val) = 0 THEN total + ProductNetPrice
                                 ELSE total)

\* composite-with-iterator.ts: the loop of Box.netPrice
OldLoop(ch, i, total) ==
  IF OldListIsDone(ch, i) THEN Value(total)
  ELSE LET cur == OldListCurrentItem(ch, i)
           price == oldNetPrice(ch, cur.ret.val)
           r == ListNext(ch, i)
       IN IF cur.ret.tag = "undefined" THEN TypeError
          ELSE IF cur.ret.tag # "value" THEN cur.ret
          ELSE IF price.tag # "value" THEN price
          ELSE OldLoop(ch, [i EXCEPT !.current = r.current], total + price.val)

\* composite-with-iterator.ts: Product.netPrice, or Box.netPrice
oldNetPrice(ch, n) ==
  IF n \notin Boxes THEN Value(ProductNetPrice)
  ELSE LET iterator == ListIterator(n)
           r == ListFirst(ch, iterator)
       IN OldLoop(ch, [iterator EXCEPT !.current = r.current], 0)

\* total = box.netPrice() with the Box of index.ts
IndexNetPriceCall(b) ==
  /\ ClientTurn
  /\ call' = [op |-> "netPrice", on |-> b, arg |-> 0, index |-> Index(0),
              before |-> children[b],
              ret |-> indexNetPrice(children, iteratorType, b)]
  /\ UNCHANGED <<nBoxes, nProducts, children, iteratorType, it, visited, lastOp, lastRet,
               np, second>>

\* total = box.netPrice() with the Box of composite-with-iterator.ts
OldNetPriceCall(b) ==
  /\ ClientTurn
  /\ call' = [op |-> "netPrice", on |-> b, arg |-> 0, index |-> Index(0),
              before |-> children[b],
              ret |-> oldNetPrice(children, b)]
  /\ UNCHANGED <<nBoxes, nProducts, children, iteratorType, it, visited, lastOp, lastRet,
               np, second>>

\* The client builds a tree of index.ts components, every Box with the one
\* iteratorType it picked, and asks for prices; an append makes the last price stale,
\* and the client constructs components only while it holds no price.
IndexNext ==
  \/ \E type \in IteratorTypes : call = NoCall /\ OneStrategy(type) /\ NewBox(type)
  \/ call = NoCall /\ NewProduct
  \/ \E b \in 1..nBoxes, c \in Created :
       KeepsTree(children, b, c) /\ DoAppend(b, c) /\ call' = NoCall
  \/ \E b \in 1..nBoxes : IndexNetPriceCall(b)

SpecIndex == Init /\ [][IndexNext]_vars

\* The same client with the components of composite-with-iterator.ts, whose
\* Box has no iteratorType.
OldNext ==
  \/ call = NoCall /\ NewBox(DFS)
  \/ call = NoCall /\ NewProduct
  \/ \E b \in 1..nBoxes, c \in Created :
       KeepsTree(children, b, c) /\ DoAppend(b, c) /\ call' = NoCall
  \/ \E b \in 1..nBoxes : OldNetPriceCall(b)

SpecOld == Init /\ [][OldNext]_vars

----------------------------------------------------------------------------
\* Traversals and totals over a tree that the client has finished building:
\* the two trees of the test suite, iterated with each of the four iterator
\* classes, and netPrice() called again and again.

\* return totalNetPrice, which the caller keeps for the next comparison
NetPriceReturnKept ==
  /\ np.pc \in {"done", "threw"}
  /\ np' = NpIdle
  /\ call' = [NoCall EXCEPT !.op = "netPrice", !.on = np.box,
                            !.ret = IF np.pc = "done" THEN Value(np.total)
                                    ELSE IteratorOutOfBoundsError]
  /\ UNCHANGED <<nBoxes, nProducts, children, iteratorType, it, visited, lastOp, lastRet,
               second>>

FrameNext ==
  \/ \E b \in 1..nBoxes : GetIterator(b)
  \/ \E b \in 1..nBoxes : ListGetIterator(b)
  \/ \E p \in Created \ Boxes : ProductGetIterator(p)
  \/ it.class # "list" /\ First
  \/ it.class # "list" /\ Next_
  \/ it.class # "list" /\ CurrentItem
  \/ it.class # "list" /\ IsDone
  \/ DoListFirst
  \/ it.class = "list" /\ Len(visited) <= Len(children[it.collection]) /\ DoListNext
  \/ DoListCurrentItem
  \/ DoListIsDone
  \/ \E b \in 1..nBoxes : NetPriceCall(b)
  \/ NetPriceLoop
  \/ NetPriceReturnKept

SpecFrame == TwoInit /\ [][FrameNext]_vars

----------------------------------------------------------------------------
\* One lazy iterator over a finished tree, restarted with first() at any
\* point of its traversal.  call.before keeps what next() had returned
\* before the restart.

\* iterator.first(), on an iterator that may have been advanced
FirstCall ==
  /\ ClientTurn
  /\ it.class \in IteratorTypes
  /\ LET r == IterFirst(children, it)
     IN /\ it' = [it EXCEPT !.buf = r.buf]
        /\ lastRet' = r.ret
        /\ call' = [NoCall EXCEPT !.op = "first", !.on = it.collection,
                                  !.before = visited, !.ret = r.ret]
  /\ children' = IterBuildTree(children, it.class, it.collection)
  /\ visited' = <<>>
  /\ lastOp' = "first"
  /\ UNCHANGED <<nBoxes, nProducts, iteratorType, np, second>>

ResetNext ==
  \/ \E b \in 1..nBoxes : it.class = "none" /\ GetIterator(b)
  \/ FirstCall
  \/ Next_
  \/ CurrentItem
  \/ IsDone

SpecReset == TwoInit /\ [][ResetNext]_vars

----------------------------------------------------------------------------
\* The client edits the Box it is iterating: append and remove on the
\* collection of a lazy iterator that is in the middle of its traversal.

\* variant: the iterator holds getItems() itself, so a push on the Box's
\* children is a push on the iterator's array
arrayAfterPushShared(array, component) == Append(array, component)

\* The iterator's array after this.children.push(component) on its
\* collection: buildStack() and buildQueue() spread getItems() into an array
\* of the iterator's own, which the push does not reach.
arrayAfterPush(array, component) == array

\* The iterator's array after this.children.splice(componentIndex, 1)
arrayAfterSplice(array, component) == array

\* it.collection.append(component), while the iterator lives
AppendUnderIterator(c) ==
  /\ ClientTurn
  /\ it.class \in IteratorTypes
  /\ children' = append(children, it.collection, c)
  /\ it' = [it EXCEPT !.buf = arrayAfterPush(it.buf, c)]
  /\ UNCHANGED <<nBoxes, nProducts, iteratorType, visited, lastOp, lastRet, np, call, second>>

\* it.collection.remove(component), while the iterator lives
RemoveUnderIterator(c) ==
  /\ ClientTurn
  /\ it.class \in IteratorTypes
  /\ children' = remove(children, it.collection, c)
  /\ it' = [it EXCEPT !.buf = arrayAfterSplice(it.buf, c)]
  /\ UNCHANGED <<nBoxes, nProducts, iteratorType, visited, lastOp, lastRet, np, call, second>>

SnapshotNext ==
  \/ \E b \in 1..nBoxes : it.class = "none" /\ GetIterator(b)
  \/ \E c \in Created :
       /\ it.class \in IteratorTypes
       /\ Len(children[it.collection]) < MaxChildren
       /\ KeepsTree(children, it.collection, c)
       /\ AppendUnderIterator(c)
  \/ \E c \in Created :
       /\ it.class \in IteratorTypes
       /\ c \in ChildSet(children, it.collection)
       /\ RemoveUnderIterator(c)
  \/ First
  \/ Next_
  \/ CurrentItem
  \/ IsDone

\* One of the two trees of the test suite, every Box of the same strategy
\* (next() reads the children of a nested Box with getItems(), whatever the
\* strategy of that Box).
SnapshotInit ==
  /\ nBoxes = 3
  /\ nProducts = 4
  /\ children \in {ScenarioTree, NaiveTestTree}
  /\ \E type \in IteratorTypes : iteratorType = [b \in Boxes |-> type]
  /\ it = NoIterator
  /\ visited = <<>>
  /\ lastOp = "none"
  /\ lastRet = Undefined
  /\ np = NpIdle
  /\ call = NoCall
  /\ second = NoSecond

SpecSnapshot == SnapshotInit /\ [][SnapshotNext]_vars

----------------------------------------------------------------------------
\* A ListIterator whose collection the client goes on editing: the tests
\* create the iterator on the empty list and append afterwards.

\* iterator = box.getIterator(); call.before keeps the items of that moment
ListGetIteratorCall(b) ==
  /\ ClientTurn
  /\ iteratorType[b] = DFS
  /\ it' = ListIterator(b)
  /\ visited' = <<>>
  /\ lastOp' = "getIterator"
  /\ lastRet' = Undefined
  /\ call' = [NoCall EXCEPT !.op = "getIterator", !.on = b, !.before = children[b]]
  /\ UNCHANGED <<nBoxes, nProducts, children, iteratorType, np, second>>

LiveNext ==
  \/ \E c \in Created \ Boxes :
       Len(children[1]) < MaxChildren /\ DoAppend(1, c) /\ UNCHANGED call
  \/ \E c \in Created \ Boxes : DoRemove(1, c) /\ UNCHANGED call
  \/ it.class = "none" /\ ListGetIteratorCall(1)
  \/ DoListFirst
  \/ it.class = "list" /\ it.current <= Len(children[it.collection]) /\ DoListNext
  \/ DoListCurrentItem
  \/ DoListIsDone

SpecLive == ChildrenInit /\ [][LiveNext]_vars

----------------------------------------------------------------------------
\* Appends without any discipline: the client may append a Box to itself or
\* to one of its own descendants.  Over a cyclic structure the stack, the
\* queue and the number of next() calls have no bound of their own; the
\* client below stops calling after MaxVisits nodes or beyond MaxBuf pending
\* nodes, and builds Boxes of at most MaxCycleChildren children.
MaxCycleChildren == 2
MaxVisits == 5
MaxBuf == 4

CycleInit ==
  /\ nBoxes = 2
  /\ nProducts = 1
  /\ children = [b \in Boxes |-> <<>>]
  /\ \E type \in IteratorTypes : iteratorType = [b \in Boxes |-> type]
  /\ it = NoIterator
  /\ visited = <<>>
  /\ lastOp = "none"
  /\ lastRet = Undefined
  /\ np = NpIdle
  /\ call = NoCall
  /\ second = NoSecond

CycleNext ==
  \/ \E b \in 1..nBoxes, c \in Created :
       /\ Building
       /\ Len(children[b]) < MaxCycleChildren
       /\ DoAppend(b, c)
       /\ UNCHANGED call
  \/ \E b \in 1..nBoxes : Building /\ GetIterator(b)
  \/ Len(visited) < MaxVisits /\ Len(it.buf) <= MaxBuf /\ Next_
  \/ IsDone
  \/ \E b \in 1..nBoxes : Building /\ NetPriceCall(b)
  \/ np.total < MaxVisits * ProductNetPrice /\ Len(np.iter.buf) <= MaxBuf /\ NetPriceLoop
  \/ NetPriceReturn

SpecCycle == CycleInit /\ [][CycleNext]_vars

----------------------------------------------------------------------------
\* The two earlier versions of the ListIterator of the Iterator pattern.
\* first() and next() are those of the later version; isDone() and
\* currentItem() differ.

\* Boolean(collectionCount) && this.current >= collectionCount - 1
ListIsDone_part001(ch, i) ==
  LET collectionCount == Len(getItems(ch, i.collection))
  IN collectionCount # 0 /\ i.current >= collectionCount - 1

ListCurrentItem_part001(ch, i) ==
  IF ListIsDone_part001(ch, i) THEN IteratorOutOfBoundsError
  ELSE At(getItems(ch, i.collection), i.current)

\* this.current === this.collection.getCount() - 1
ListIsDone_part002(ch, i) == i.current = Len(getItems(ch, i.collection)) - 1

ListCurrentItem_part002(ch, i) == At(getItems(ch, i.collection), i.current)

Versions == {"part_001", "part_002"}

\* iterator.isDone() of the given version; call keeps the version
EarlyIsDoneCall(version) ==
  /\ ClientTurn
  /\ it.class = "list"
  /\ lastRet' = Bool(IF version = "part_001" THEN ListIsDone_part001(children, it)
                     ELSE ListIsDone_part002(children, it))
  /\ lastOp' = "isDone"
  /\ call' = [NoCall EXCEPT !.op = version]
  /\ UNCHANGED <<nBoxes, nProducts, children, iteratorType, it, visited, np, second>>

\* iterator.currentItem() of the given version
EarlyCurrentItemCall(version) ==
  /\ ClientTurn
  /\ it.class = "list"
  /\ lastRet' = IF version = "part_001" THEN ListCurrentItem_part001(children, it)
                ELSE ListCurrentItem_part002(children, it)
  /\ lastOp' = "currentItem"
  /\ call' = [NoCall EXCEPT !.op = version]
  /\ UNCHANGED <<nBoxes, nProducts, children, iteratorType, it, visited, np, second>>

EarlyNext ==
  \/ \E c \in Created \ Boxes :
       Building /\ Len(children[1]) < MaxChildren /\ DoAppend(1, c) /\ UNCHANGED call
  \/ Building /\ ListGetIterator(1)
  \/ DoListFirst
  \/ it.class = "list" /\ Len(visited) <= Len(children[it.collection]) /\ DoListNext
  \/ \E version \in Versions : EarlyIsDoneCall(version)
  \/ \E version \in Versions : EarlyCurrentItemCall(version)

SpecEarly == ChildrenInit /\ [][EarlyNext]_vars

----------------------------------------------------------------------------
\* The List aggregate of the Iterator pattern; children[1] holds its items.

\* List.append
listAppend(ch, b, item) == [ch EXCEPT ![b] = Append(ch[b], item)]

\* List.remove: this.items.splice(this.items.indexOf(item), 1)
listRemove(ch, b, item) == [ch EXCEPT ![b] = Splice(ch[b], IndexOf(ch[b], item), 1)]

\* list.append(item)
ListAppendCall(item) ==
  /\ ClientTurn
  /\ children' = listAppend(children, 1, item)
  /\ call' = [op |-> "append", on |-> 1, arg |-> item, index |-> Index(0),
              before |-> children[1], ret |-> Undefined]
  /\ UNCHANGED <<nBoxes, nProducts, iteratorType, it, visited, lastOp, lastRet, np, second>>

\* list.remove(item)
ListRemoveCall(item) ==
  /\ ClientTurn
  /\ children' = listRemove(children, 1, item)
  /\ call' = [op |-> "remove", on |-> 1, arg |-> item, index |-> Index(0),
              before |-> children[1], ret |-> Undefined]
  /\ UNCHANGED <<nBoxes, nProducts, iteratorType, it, visited, lastOp, lastRet, np, second>>

ListEditNext ==
  \/ \E item \in Created \ {1} : Len(children[1]) < MaxChildren /\ ListAppendCall(item)
  \/ \E item \in Created \ {1} : ListRemoveCall(item)

SpecListEdit == ChildrenInit /\ [][ListEditNext]_vars

----------------------------------------------------------------------------
\* The client edits nested Boxes while a lazy iterator over Big is in the
\* middle of its traversal.  It appends components the iterator has not
\* reached yet (neither returned nor pending on the stack or in the queue),
\* and never Big itself.
NestedNext ==
  \/ it.class = "none" /\ GetIterator(1)
  \/ \E b \in (1..nBoxes) \ {1}, c \in Created :
       /\ it.class \in IteratorTypes
       /\ Len(children[b]) < MaxChildren
       /\ KeepsTree(children, b, c)
       /\ c # it.collection
       /\ \A k \in 1..Len(visited) : visited[k] # c
       /\ \A k \in 1..Len(it.buf) : it.buf[k] # c
       /\ DoAppend(b, c)
       /\ UNCHANGED call
  \/ \E b \in (1..nBoxes) \ {1}, c \in Created :
       /\ it.class \in IteratorTypes
       /\ c \in ChildSet(children, b)
       /\ DoRemove(b, c)
       /\ UNCHANGED call
  \/ Next_

SpecNested == SnapshotInit /\ [][NestedNext]_vars

----------------------------------------------------------------------------
\* Reference notions the properties are stated with.

IsPrefix(s, t) == Len(s) <= Len(t) /\ SubSeq(t, 1, Len(s)) = s

\* the pre-order listing of the subtrees rooted at the nodes of s, by recursion
RECURSIVE PreOrderOf(_, _)
PreOrderOf(ch, s) ==
  IF s = <<>> THEN <<>>
  ELSE LET h == Head(s)
       IN <<h>> \o (IF h \in Boxes THEN PreOrderOf(ch, ch[h]) ELSE <<>>)
               \o PreOrderOf(ch, Tail(s))

PreOrder(ch, root) == PreOrderOf(ch, ch[root])

Parent(ch, n) == CHOOSE b \in Boxes : n \in ChildSet(ch, b)

\* depth of a descendant n of root; the root's children have depth 1
RECURSIVE Depth(_, _, _)
Depth(ch, root, n) ==
  IF n \in ChildSet(ch, root) THEN 1 ELSE 1 + Depth(ch, root, Parent(ch, n))

\* the elements of s that lie in S, in the order of s
RECURSIVE Filter(_, _)
Filter(s, S) ==
  IF s = <<>> THEN <<>>
  ELSE (IF Head(s) \in S THEN <<Head(s)>> ELSE <<>>) \o Filter(Tail(s), S)

ProductsBelow(ch, b) == Cardinality(Descendants(ch, b) \cap Products)

Live == it.class # "none"
Returned == np.pc \in {"done", "threw"}

----------------------------------------------------------------------------
\* C1: whenever Box.netPrice() ends, it has returned (not thrown) and the
\* value is 20 times the number of Products below that Box, each Product
\* counted once and Boxes counting for nothing, under either strategy.
C1_NetPriceCountsEachProductOnce ==
  Returned =>
    /\ np.pc = "done"
    /\ np.total = ProductNetPrice * ProductsBelow(children, np.box)

\* C2: netPrice() of a Box without children returns 0 and throws nothing,
\* under the depth-first and under the breadth-first strategy.
C2_EmptyBoxNetPriceIsZero ==
  (Returned /\ children[np.box] = <<>>) => (np.pc = "done" /\ np.total = 0)

\* C3: the nodes a LazyBreadthFirstSearchIterator has returned so far are in
\* level order: along the sequence of next() results the depth below the
\* root never decreases.
C3_BfsDepthNeverDecreases ==
  it.class = BFS =>
    \A i \in 1..Len(visited), j \in 1..Len(visited) :
      i < j => Depth(children, it.collection, visited[i])
                 <= Depth(children, it.collection, visited[j])

\* a Box with a child was returned, then a sibling at depth 1, then a node
\* of depth 2: the point where level order and pre-order part
C3_Witness ==
  /\ it.class = BFS
  /\ Len(visited) >= 3
  /\ visited[1] \in Boxes
  /\ children[visited[1]] # <<>>
  /\ Depth(children, it.collection, visited[2]) = 1
  /\ Depth(children, it.collection, visited[3]) = 2

\* C4: the nodes a LazyDepthFirstSearchIterator has returned so far are the
\* beginning of the pre-order listing of the root's descendants (a Box
\* before its descendants, all descendants of a node before the node's next
\* sibling); when the iterator is done they are the whole listing.
C4_DfsIsPreOrder ==
  it.class = DFS =>
    /\ IsPrefix(visited, PreOrder(children, it.collection))
    /\ (DfsIsDone(it.buf) /\ lastOp = "next"
          => visited = PreOrder(children, it.collection))

\* a traversal that ended after a nested Box with two children and a sibling
C4_Witness ==
  /\ it.class = DFS
  /\ DfsIsDone(it.buf)
  /\ Len(visited) = 3
  /\ visited[1] \in Boxes
  /\ Depth(children, it.collection, visited[2]) = 2
  /\ Depth(children, it.collection, visited[3]) = 2

\* the names of the nodes returned so far
VisitedNames == [i \in 1..Len(visited) |-> getName(visited[i])]

C6_DfsCurrentItem ==
  [][(it.class = DFS /\ lastOp' = "currentItem") =>
       /\ it' = it
       /\ (lastRet' = IteratorOutOfBoundsError) <=> DfsIsDone(it.buf)
       /\ ~DfsIsDone(it.buf) => lastRet' = Value(it.buf[Len(it.buf)])]_vars

\* currentItem() threw on an iterator that next() had exhausted
C6_Witness ==
  /\ it.class = DFS
  /\ lastOp = "currentItem"
  /\ lastRet = IteratorOutOfBoundsError
  /\ Len(visited) >= 2

\* C7: LazyBreadthFirstSearchIterator.currentItem() on an exhausted iterator
\* (empty queue) throws IteratorOutOfBoundsError, as the depth-first one does.
C7_BfsCurrentItemThrowsWhenExhausted ==
  (it.class = BFS /\ lastOp = "currentItem" /\ BfsIsDone(it.buf))
    => lastRet = IteratorOutOfBoundsError

\* C8: first() of either lazy iterator returns the root's first child, or
\* undefined (and throws nothing) when the root has no children.
C8_FirstReturnsFirstChildOrUndefined ==
  (Live /\ lastOp = "first") => lastRet = At(children[it.collection], 0)

\* C9: next() on an exhausted lazy iterator returns undefined, throws nothing
\* and leaves the stack / queue empty, however often it is repeated.
C9_NextPastTheEnd ==
  [][(Live /\ IterIsDone(it) /\ lastOp' = "next") =>
       (lastRet' = Undefined /\ it'.buf = <<>>)]_vars

\* next() was called twice on an iterator that had already returned every node
C9_Witness ==
  /\ Live
  /\ lastOp = "next"
  /\ lastRet = Undefined
  /\ IterIsDone(it)
  /\ Len(visited) >= 1
  /\ Len(visited) = Cardinality(Descendants(children, it.collection))

\* C10: right after construction isDone() is true only if the root has no
\* children, and next() never makes a done iterator not done.
C10_DoneOnlyIfEmptyAndAbsorbing ==
  /\ []((Live /\ lastOp = "getIterator" /\ IterIsDone(it))
          => children[it.collection] = <<>>)
  /\ [][(Live /\ IterIsDone(it) /\ lastOp' = "next") => IterIsDone(it')]_vars

\* isDone() answered true after a traversal of a Box with children
C10_Witness ==
  /\ Live
  /\ lastOp = "isDone"
  /\ lastRet = Bool(TRUE)
  /\ children[it.collection] # <<>>
  /\ Len(visited) >= 1


\* the children sequence without its first occurrence of c, by recursion
RECURSIVE WithoutFirst(_, _)
WithoutFirst(s, c) ==
  IF s = <<>> THEN <<>>
  ELSE IF Head(s) = c THEN Tail(s)
  ELSE <<Head(s)>> \o WithoutFirst(Tail(s), c)

Occurrences(s, c) == Cardinality({i \in 1..Len(s) : s[i] = c})

\* C11: in the composite-with-iterator Box, remove(c) deletes exactly the first
\* occurrence of c and keeps the other children in their order; when c is not
\* a child the children sequence is unchanged (and nothing is raised: the call
\* completes).
C11_RemoveDeletesFirstOccurrence ==
  call.op = "remove" =>
    /\ children[call.on] = WithoutFirst(call.before, call.arg)
    /\ Occurrences(call.before, call.arg) = 0 => children[call.on] = call.before
    /\ Occurrences(call.before, call.arg) > 0 =>
          /\ Len(children[call.on]) = Len(call.before) - 1
          /\ Occurrences(children[call.on], call.arg)
               = Occurrences(call.before, call.arg) - 1

\* remove(c) took the first of two occurrences of c, a different child between
C11_Witness ==
  /\ call.op = "remove"
  /\ Len(call.before) = 3
  /\ call.before[1] = call.arg /\ call.before[3] = call.arg /\ call.before[2] # call.arg
  /\ children[call.on] = Tail(call.before)

\* remove(c) of a component that is not a child of a Box with children
C11_WitnessAbsent ==
  /\ call.op = "remove"
  /\ call.before # <<>>
  /\ Occurrences(call.before, call.arg) = 0

\* C12: in the basic Composite Box, remove(x) with an x that is not a child
\* leaves the children sequence unchanged: every child that was present is
\* still at the same index afterwards.
C12_RemoveOfNonChildIsNoOp ==
  (call.op = "remove" /\ Occurrences(call.before, call.arg) = 0) =>
    children[call.on] = call.before

\* C13: getChild(index) never throws; on a Box it returns the child at that
\* position when 0 <= index < number of children and undefined for every
\* other index (negative, too large, non-finite); on a Product it returns
\* undefined for every index.
C13_GetChildNeverThrows ==
  call.op = "getChild" =>
    LET inRange == /\ call.on \in 1..nBoxes
                   /\ call.index.kind = "int"
                   /\ 0 <= call.index.val
                   /\ call.index.val < Len(children[call.on])
    IN /\ call.ret.tag \in {"value", "undefined"}
       /\ inRange => call.ret = Value(children[call.on][call.index.val + 1])
       /\ ~inRange => call.ret = Undefined

\* getChild(Infinity) on a Box that has children returned undefined
C13_Witness ==
  /\ call.op = "getChild"
  /\ call.on = 1
  /\ children[1] # <<>>
  /\ call.index.kind = "Infinity"
  /\ call.ret = Undefined

\* getChild of the last position returned the last child
C13_WitnessInRange ==
  /\ call.op = "getChild"
  /\ call.on = 1
  /\ Len(children[1]) = MaxChildren
  /\ call.index = Index(MaxChildren - 1)
  /\ call.ret = Value(children[1][MaxChildren])

\* C14: append(c) / add(c) on a Box with n children makes c the child at
\* index n and leaves the children at indices 0..n-1 unchanged; a remove(c)
\* that follows, of a child that occurs once, restores the previous children
\* sequence.
C14_AppendPutsLastAndRemoveRestores ==
  [][ /\ call'.op \in {"append", "add"} =>
           LET n == Len(call'.before)
           IN /\ Len(children'[call'.on]) = n + 1
              /\ children'[call'.on][n + 1] = call'.arg
              /\ SubSeq(children'[call'.on], 1, n) = call'.before
      /\ ( /\ call.op \in {"append", "add"}
           /\ Occurrences(call.before, call.arg) = 0
           /\ call'.op = "remove"
           /\ call'.on = call.on
           /\ call'.arg = call.arg ) =>
           children'[call.on] = call.before
    ]_vars

\* remove(c) took the only occurrence of c, the last child of a Box that has
\* other children, and the Box is as it was before c was appended
C14_Witness ==
  /\ call.op = "remove"
  /\ children[call.on] # <<>>
  /\ call.before = Append(children[call.on], call.arg)
  /\ Occurrences(children[call.on], call.arg) = 0

\* C15: getBox() is a stable type discriminator: on every Box it returns
\* that same Box and on every Product the sentinel 0, whatever has been
\* appended or removed before.
C15_GetBoxDiscriminates ==
  /\ \A n \in Created : getBox(n) = IF n \in 1..nBoxes THEN n ELSE 0
  /\ call.op = "getBox" =>
        call.ret = Value(IF call.on \in 1..nBoxes THEN call.on ELSE 0)

\* getBox() on the Box after children were appended and one was removed again
C15_Witness ==
  /\ call.op = "getBox"
  /\ call.on = 1
  /\ call.ret = Value(1)
  /\ Len(children[1]) = MaxChildren - 1
  /\ \E i \in 1..Len(children[1]) : children[1][i] = 2

\* getBox() on a Product that is a child of the Box
C15_WitnessProduct ==
  /\ call.op = "getBox"
  /\ call.on \in {0 - i : i \in 1..nProducts}
  /\ call.ret = Value(0)
  /\ Occurrences(children[1], call.on) > 0

\* C16: Product.getIterator() returns a NullIterator, which is always done:
\* whatever first() / next() / currentItem() calls came before, isDone() is
\* true, and first(), next() and currentItem() return undefined and raise
\* nothing.
C16_NullIteratorIsAlwaysDone ==
  /\ [][\A p \in Created \ Boxes : ProductGetIterator(p) => it'.class = "null"]_vars
  /\ [](it.class = "null" =>
          /\ IterIsDone(it)
          /\ lastOp = "isDone" => lastRet = Bool(TRUE)
          /\ lastOp \in {"first", "next", "currentItem"} => lastRet = Undefined)
  /\ [][(it.class = "null" /\ lastOp = "next" /\ lastOp' = "isDone")
          => lastRet' = Bool(TRUE)]_vars

\* isDone() on the iterator of a Product that is in the tree
C16_Witness ==
  /\ it.class = "null"
  /\ lastOp = "isDone"
  /\ lastRet = Bool(TRUE)
  /\ children # [b \in Boxes |-> <<>>]

\* C17 as stated: the naive netPrice of Big over the tree
\* Big{Medium{Small{P,P}},P,P}, every Box breadth-first, returns 120.
C17_NaiveOverNestedTreeIs120 ==
  ( /\ call.op = "netPrice"
    /\ call.on = 1
    /\ iteratorType[1] = BFS
    /\ children = ScenarioTree ) => call.ret = Value(120)

\* C17: the naive netPrice of Big, every Box breadth-first, returns 120 over
\* the tree Big{Medium{P,P},P,P} (each Product of Medium counted twice), and
\* 200 over the tree Big{Medium{Small{P,P}},P,P} (each Product of Small
\* counted four times).
C17_NaiveDoubleCounts ==
  ( /\ call.op = "netPrice"
    /\ call.on = 1
    /\ iteratorType[1] = BFS ) =>
      /\ children = NaiveTestTree => call.ret = Value(120)
      /\ children = ScenarioTree => call.ret = Value(200)

\* the naive netPrice of Big has returned over Big{Medium{P,P},P,P}
C17_Witness ==
  /\ call.op = "netPrice"
  /\ call.on = 1
  /\ iteratorType[1] = BFS
  /\ children = NaiveTestTree

\* the naive netPrice of Big has returned over Big{Medium{Small{P,P}},P,P}
C17_WitnessNested ==
  /\ call.op = "netPrice"
  /\ call.on = 1
  /\ iteratorType[1] = BFS
  /\ children = ScenarioTree

\* the children of the Boxes of s, one Box after the other
RECURSIVE ChildrenOfAll(_, _)
ChildrenOfAll(ch, s) ==
  IF s = <<>> THEN <<>>
  ELSE (IF Head(s) \in Boxes THEN ch[Head(s)] ELSE <<>>) \o ChildrenOfAll(ch, Tail(s))

\* the level-order listing of the nodes below the level s, by recursion
RECURSIVE LevelOrderOf(_, _)
LevelOrderOf(ch, s) ==
  IF s = <<>> THEN <<>> ELSE s \o LevelOrderOf(ch, ChildrenOfAll(ch, s))

\* what an iterator of that class returns, one next() after the other, when
\* nothing else runs
Listing(ch, class, root) ==
  IF class = BFS THEN LevelOrderOf(ch, ch[root]) ELSE PreOrder(ch, root)

\* The iterator i, with the nodes vis it has returned since its last first()
\* and the result ret of the last call op on it, is where a traversal of its
\* own is after as many next() calls, and answered as that traversal does.
AsAlone(i, vis, op, ret) ==
  LET R == Listing(children, i.class, i.collection)
      k == Len(vis)
      atEnd == IF i.class = BFS THEN Undefined ELSE IteratorOutOfBoundsError
  IN /\ IsPrefix(vis, R)
     /\ IterIsDone(i) <=> k = Len(R)
     /\ ~IterIsDone(i) => IterCurrentItem(i).ret = Value(R[k + 1])
     /\ op = "isDone" => ret = Bool(k = Len(R))
     /\ op = "currentItem" => ret = IF k < Len(R) THEN Value(R[k + 1]) ELSE atEnd
     /\ op = "next" => \/ ret = Undefined /\ k = Len(R)
                       \/ k >= 1 /\ ret = Value(R[k])
     /\ op = "first" => k = 0 /\ ret = IF R # <<>> THEN Value(R[1]) ELSE atEnd

\* C18: each iterator object owns its traversal state: with two iterators
\* (of any strategies) over the same tree, under every interleaving of their
\* first() / next() / isDone() / currentItem() calls each one returns what it
\* returns when it is stepped alone, and the tree stays as it is.
C18_IteratorsAreIndependent ==
  /\ [](Live => AsAlone(it, visited, lastOp, lastRet))
  /\ [](second.it.class # "none" =>
          AsAlone(second.it, second.visited, second.lastOp, second.lastRet))
  /\ [][children' = children]_vars

\* a depth-first and a breadth-first iterator over the same tree, both in the
\* middle of their traversals, at different nodes
C18_Witness ==
  /\ it.class = DFS
  /\ second.it.class = BFS
  /\ Len(visited) = 2
  /\ Len(second.visited) = 1
  /\ it.collection = 1
  /\ second.it.collection = 2
  /\ children = ScenarioTree
  /\ lastOp = "currentItem"
  /\ second.lastOp = "next"

\* two iterators of the same Box, one done and one at the start
C18_WitnessSameBox ==
  /\ it.collection = 1
  /\ second.it.collection = 1
  /\ IterIsDone(it)
  /\ Len(visited) = 6
  /\ Len(second.visited) = 1
  /\ second.lastOp = "next"

\* C19: the documented client loop over a ListIterator executes its body
\* exactly once per element of the collection, in insertion order, is never
\* given undefined by currentItem() and never sees it raise; over an empty
\* collection the body executes zero times.
C19_ClientLoopVisitsEachElementOnce ==
  (Returned /\ np.iter.class = "list") =>
    /\ np.pc = "done"
    /\ np.seen = [i \in 1..Len(children[np.box]) |-> Value(children[np.box][i])]

\* C19, on a collection that has an element
C19_ClientLoopOverNonEmpty ==
  (Returned /\ np.iter.class = "list" /\ children[np.box] # <<>>) =>
    /\ np.pc = "done"
    /\ np.seen = [i \in 1..Len(children[np.box]) |-> Value(children[np.box][i])]

C21_IndexNetPriceCountsProducts ==
  call.op = "netPrice" =>
    call.ret = Value(ProductNetPrice * ProductsBelow(children, call.on))

\* C21, on trees in which every depth-first Box below or at the root of the
\* call has a child
C21_IndexNetPriceWithoutEmptyDfsBox ==
  ( /\ call.op = "netPrice"
    /\ \A b \in (Descendants(children, call.on) \cup {call.on}) \cap Boxes :
         iteratorType[call.on] = DFS /\ iteratorType[b] = DFS => children[b] # <<>> )
  => call.ret = Value(ProductNetPrice * ProductsBelow(children, call.on))

\* C22: in composite-with-iterator.ts, on every tree Box.netPrice() returns
\* 20 times the number of Product descendants, empty Boxes at any depth
\* counting 0; and it is the value the lazy-iterator Box.netPrice of the later
\* version returns, under either strategy, whenever that one returns a value.
C22_OldNetPriceAgreesWithLazy ==
  call.op = "netPrice" =>
    /\ call.ret = Value(ProductNetPrice * ProductsBelow(children, call.on))
    /\ \A type \in IteratorTypes :
         LET later == lazyNetPrice(children, [b \in Boxes |-> type], call.on)
         IN later.tag = "value" => later = call.ret

\* the price of a Box that holds an empty Box and a Box with a Product
C22_Witness ==
  /\ call.op = "netPrice"
  /\ call.ret = Value(ProductNetPrice)
  /\ \E b \in ChildSet(children, call.on) \cap Boxes : children[b] = <<>>
  /\ \E b \in ChildSet(children, call.on) \cap Boxes : children[b] # <<>>

----------------------------------------------------------------------------
\* C23: over a finite acyclic tree whose root has N descendants, a lazy
\* iterator (depth-first or breadth-first), started by its construction or by
\* first(), is done after exactly N calls of next(): before that every next()
\* returns one more node, the nodes returned are descendants of the root and
\* none is returned twice, and isDone() holds exactly when all N have been
\* returned.  Hence the loop of netPrice() always comes to its end.
C23_TraversalSoFarIsExact ==
  it.class \in IteratorTypes =>
    /\ \A i, j \in 1..Len(visited) : visited[i] = visited[j] => i = j
    /\ \A i \in 1..Len(visited) : visited[i] \in Descendants(children, it.collection)
    /\ IterIsDone(it) <=> Len(visited) = Cardinality(Descendants(children, it.collection))

C23_LazyIteratorTerminates ==
  /\ []C23_TraversalSoFarIsExact
  /\ [][(it.class \in IteratorTypes /\ ~IterIsDone(it) /\ lastOp' = "next")
          => Len(visited') = Len(visited) + 1]_vars
  /\ (np.pc = "loop") ~> Returned

C23_Witness ==
  /\ it.class \in IteratorTypes
  /\ lastOp = "isDone"
  /\ lastRet = Bool(TRUE)
  /\ Len(visited) = 3
  /\ \E n \in Descendants(children, it.collection) : Depth(children, it.collection, n) = 2

----------------------------------------------------------------------------
\* C24: no iterator operation (the constructor, first(), next(), isDone(),
\* currentItem() of the depth-first, breadth-first, List and Null iterators)
\* and no step of netPrice() changes the children of any Box or their order;
\* the reversal that fills the depth-first stack works on a copy.  A
\* netPrice() call on a Box returns what the preceding call on it returned.
C24_TreeUnchanged == [][children' = children]_vars

C24_SameNetPriceAgain ==
  (np.pc = "done" /\ call.op = "netPrice" /\ call.on = np.box) => call.ret = Value(np.total)

C24_IterationLeavesTreeUnchanged == C24_TreeUnchanged /\ []C24_SameNetPriceAgain

C24_Witness ==
  /\ it.class = DFS
  /\ lastOp = "next"
  /\ lastRet.tag = "value"
  /\ getBox(lastRet.val) # 0
  /\ np.pc = "done"
  /\ call.op = "netPrice"
  /\ call.on = np.box

----------------------------------------------------------------------------
\* 2^k
RECURSIVE Pow2(_)
Pow2(k) == IF k = 0 THEN 1 ELSE 2 * Pow2(k - 1)

\* the sum over the Products p of S of 2^(depth of p below root - 1)
RECURSIVE NaiveCount(_, _, _)
NaiveCount(ch, root, S) ==
  IF S = {} THEN 0
  ELSE LET p == CHOOSE x \in S : TRUE
       IN Pow2(Depth(ch, root, p) - 1) + NaiveCount(ch, root, S \ {p})

\* C25: the naive aggregator (breadth-first, every Box adding the netPrice()
\* of every node it visits) counts a Product at depth k below the Box exactly
\* 2^(k-1) times; so its result exceeds the true total exactly when some
\* Product lies at depth 2 or more, and over Big{Medium{P,P},P,P} it is 120
\* where the true total is 80.
C25_NaiveCountsPowerOfTwo ==
  (call.op = "netPrice" /\ iteratorType[call.on] = BFS) =>
    LET below == Descendants(children, call.on) \cap Products
        trueTotal == ProductNetPrice * Cardinality(below)
    IN /\ call.ret = Value(ProductNetPrice * NaiveCount(children, call.on, below))
       /\ call.ret.val > trueTotal <=> \E p \in below : Depth(children, call.on, p) >= 2
       /\ (children = NaiveTestTree /\ call.on = 1) => (call.ret = Value(120) /\ trueTotal = 80)

C25_Witness ==
  /\ call.op = "netPrice"
  /\ iteratorType[call.on] = BFS
  /\ \E p \in Descendants(children, call.on) \cap Products : Depth(children, call.on, p) = 3
  /\ \E p \in Descendants(children, call.on) \cap Products : Depth(children, call.on, p) = 1

----------------------------------------------------------------------------
\* C26: first() is a reset.  On a lazy iterator over an unmodified tree whose
\* root has at least one child, after any number of next() calls (also past
\* the end) first() leaves the iterator as its constructor would and returns
\* the first node of the traversal; the next() calls that follow return the
\* whole traversal again, from its beginning; a second first() changes
\* nothing.
C26_FirstIsAReset ==
  (call.op = "first" /\ Len(children[it.collection]) >= 1) =>
    LET whole == Listing(children, it.class, it.collection)
    IN /\ lastOp = "first" =>
            /\ it = NewIterator(children, iteratorType[it.collection], it.collection)
            /\ lastRet = Value(whole[1])
       /\ IsPrefix(visited, whole)
       /\ IterIsDone(it) <=> visited = whole

C26_FirstTwice ==
  [][(call.op = "first" /\ lastOp = "first" /\ lastOp' = "first")
       => (it' = it /\ lastRet' = lastRet /\ visited' = visited)]_vars

C26_FirstResetsTheTraversal == []C26_FirstIsAReset /\ C26_FirstTwice

\* restarted after some next() calls, the iterator has returned the whole
\* traversal of a nested tree again
C26_Witness ==
  /\ call.op = "first"
  /\ Len(call.before) >= 2
  /\ lastOp = "next"
  /\ IterIsDone(it)
  /\ Len(visited) >= 4
  /\ visited = Listing(children, it.class, it.collection)

----------------------------------------------------------------------------
\* what next() will return, call after call, until the iterator is done
RECURSIVE Remaining(_, _)
Remaining(ch, i) ==
  IF IterIsDone(i) THEN <<>>
  ELSE LET r == IterNext(ch, i)
       IN <<r.ret.val>> \o Remaining(ch, [i EXCEPT !.buf = r.buf])

\* C27: a lazy iterator works on a snapshot of its root's children, taken by
\* the constructor and again by first().  An append or a remove on the root
\* after that does not change what isDone(), currentItem() and next() answer:
\* the nodes still to be returned are the same before and after the edit.
\* A first() takes the snapshot anew, from the children the root has then.
C27_EditsOfTheRootAreNotSeen ==
  [][(it.class \in IteratorTypes /\ children' # children) =>
       /\ IterIsDone(it') = IterIsDone(it)
       /\ IterIsDone(it) \/ IterCurrentItem(it').ret = IterCurrentItem(it).ret
       /\ Remaining(children', it') = Remaining(children, it)]_vars

C27_FirstSeesTheEdits ==
  [][(it.class \in IteratorTypes /\ children' = children /\ lastOp' = "first") =>
       /\ it' = NewIterator(children', iteratorType[it.collection], it.collection)
       /\ Remaining(children', it') = Listing(children', it.class, it.collection)]_vars

C27_IteratorSnapshotsTheRoot == C27_EditsOfTheRootAreNotSeen /\ C27_FirstSeesTheEdits

\* the root was edited during the traversal: the nodes the exhausted
\* iterator has returned are not the listing of the tree as it is now
C27_Witness ==
  /\ it.class \in IteratorTypes
  /\ lastOp = "next"
  /\ IterIsDone(it)
  /\ Len(visited) >= 4
  /\ visited # Listing(children, it.class, it.collection)

----------------------------------------------------------------------------
\* C28: a ListIterator is a live view of its collection.  Every isDone()
\* and currentItem() answers for the items the collection holds at the call:
\* done when the index is at or past their number (unless both are 0), the
\* item at the index otherwise.  So an iterator created on an empty List
\* reports the item appended afterwards as its current item, and an append
\* made while the iterator stands at the end, one past the last item, makes
\* isDone() false again.
C28_AnsweredForTheItemsOfTheMoment ==
  [][(it.class = "list" /\ it' = it /\ children' = children) =>
       LET items == children[it.collection]
           doneNow == ~(it.current = 0 /\ Len(items) = 0) /\ it.current >= Len(items)
       IN /\ lastOp' = "isDone" => lastRet' = Bool(doneNow)
          /\ lastOp' = "currentItem" =>
               lastRet' = IF doneNow THEN IteratorOutOfBoundsError
                          ELSE IF it.current < Len(items) THEN Value(items[it.current + 1])
                          ELSE Undefined]_vars

C28_AppendedItemIsCurrent ==
  (call.op = "getIterator" /\ call.before = <<>> /\ lastOp = "getIterator"
     /\ Len(children[it.collection]) >= 1) =>
       ListCurrentItem(children, it).ret = Value(children[it.collection][1])

C28_AppendAtTheEndReopens ==
  [][(it.class = "list" /\ it.current >= 1 /\ it.current = Len(children[it.collection])
        /\ Len(children'[it.collection]) = Len(children[it.collection]) + 1) =>
       (ListIsDone(children, it) /\ ~ListIsDone(children', it'))]_vars

C28_WitnessAppendedItem ==
  /\ call.op = "getIterator"
  /\ call.before = <<>>
  /\ visited = <<>>
  /\ it.current = 0
  /\ lastOp = "currentItem"
  /\ Len(children[1]) >= 1
  /\ lastRet = Value(children[1][1])

----------------------------------------------------------------------------
\* C29: over an empty collection a ListIterator that was just created or
\* reset by first() is not done: isDone() answers false and currentItem()
\* returns undefined without raising IteratorOutOfBoundsError.  After one
\* next() isDone() answers true and currentItem() raises.
C29_EmptyListIsNotDoneAtFirst ==
  (it.class = "list" /\ children[it.collection] = <<>>) =>
    /\ lastOp \in {"getIterator", "first"} =>
         /\ ~ListIsDone(children, it)
         /\ ListCurrentItem(children, it).ret = Undefined
    /\ (Len(visited) = 0 /\ lastOp = "isDone") => lastRet = Bool(FALSE)
    /\ (Len(visited) = 0 /\ lastOp = "currentItem") => lastRet = Undefined
    /\ (Len(visited) = 1 /\ lastOp = "isDone") => lastRet = Bool(TRUE)
    /\ (Len(visited) = 1 /\ lastOp = "currentItem") => lastRet = IteratorOutOfBoundsError

C29_Witness ==
  /\ it.class = "list"
  /\ children[it.collection] = <<>>
  /\ Len(visited) = 1
  /\ lastOp = "currentItem"
  /\ lastRet = IteratorOutOfBoundsError

C29_WitnessFresh ==
  /\ it.class = "list"
  /\ children[it.collection] = <<>>
  /\ Len(visited) = 0
  /\ lastOp = "currentItem"
  /\ lastRet = Undefined

----------------------------------------------------------------------------
\* the elements of the sequence s
Range(s) == {s[k] : k \in 1..Len(s)}

\* C30: on a lazy iterator that is not exhausted, next() returns the node
\* currentItem() designated just before the call; if that node is a Box, each
\* of the children it has at the call is on the stack, or in the queue, when
\* next() returns; and after next() currentItem() designates the node that
\* follows in the traversal.
C30_NextLeavesTheCurrentItem ==
  [][(it.class \in IteratorTypes /\ ~IterIsDone(it) /\ lastOp' = "next"
        /\ Len(visited') = Len(visited) + 1) =>
       LET left == IterCurrentItem(it).ret
           whole == Listing(children, it.class, it.collection)
       IN /\ lastRet' = left
          /\ left.tag = "value"
          /\ getBox(left.val) # 0 => ChildSet(children, left.val) \subseteq Range(it'.buf)
          /\ ~IterIsDone(it') =>
               IterCurrentItem(it').ret = Value(whole[Len(visited') + 1])]_vars

\* next() has just returned a Box with two children or more, and the
\* traversal goes on
C30_Witness ==
  /\ it.class \in IteratorTypes
  /\ lastOp = "next"
  /\ lastRet.tag = "value"
  /\ getBox(lastRet.val) # 0
  /\ Len(children[lastRet.val]) >= 2
  /\ ChildSet(children, lastRet.val) \subseteq Range(it.buf)
  /\ ~IterIsDone(it)

----------------------------------------------------------------------------
\* the Box b contains itself, directly or through other Boxes
OnACycle(ch, b) == b \in Descendants(ch, b)

\* C31: append makes no acyclicity check.  It accepts any component, the Box
\* itself and its ancestors included, and changes nothing but the children
\* of the receiver, to which it adds the component at the end.  Once a Box
\* contains itself, a lazy iterator over it is never done, however many times
\* next() is called, and its netPrice() never leaves its loop.
C31_AppendOnlyAppends ==
  [][children' # children =>
       /\ \E b \in 1..nBoxes, c \in Created :
            /\ children'[b] = children[b] \o <<c>>
            /\ \A o \in Boxes \ {b} : children'[o] = children[o]
       /\ UNCHANGED <<nBoxes, nProducts, iteratorType, it, visited, lastOp, lastRet, np>>]_vars

C31_IteratorOverACycleIsNeverDone ==
  /\ (it.class \in IteratorTypes /\ OnACycle(children, it.collection)) => ~IterIsDone(it)
  /\ (lastOp = "isDone" /\ OnACycle(children, it.collection)) => lastRet = Bool(FALSE)
  /\ (np.pc # "idle" /\ OnACycle(children, np.box)) => np.pc = "loop"

C31_CyclesAreAcceptedAndNeverEnd ==
  C31_AppendOnlyAppends /\ []C31_IteratorOverACycleIsNeverDone

\* a Box that was appended to itself, MaxVisits next() calls later
C31_Witness ==
  /\ it.class \in IteratorTypes
  /\ it.collection \in ChildSet(children, it.collection)
  /\ Len(visited) = MaxVisits
  /\ lastOp = "isDone"
  /\ lastRet = Bool(FALSE)

\* netPrice() of a Box that contains itself through another Box, in its loop
C31_WitnessNetPrice ==
  /\ np.pc = "loop"
  /\ np.box \notin ChildSet(children, np.box)
  /\ OnACycle(children, np.box)
  /\ np.total >= MaxVisits * ProductNetPrice

----------------------------------------------------------------------------
\* C32: in the earlier versions of the ListIterator, isDone() is true only
\* once the iterator has advanced beyond the last element: over a list of
\* n >= 1 items it answers false while current <= n - 1, so that the last
\* item can still be read with currentItem(), and true for every
\* current >= n.
C32_IsDoneOnlyBeyondTheLastItem ==
  (it.class = "list" /\ Len(children[it.collection]) >= 1) =>
    LET n == Len(children[it.collection])
    IN /\ lastOp = "isDone" => lastRet = Bool(it.current >= n)
       /\ (lastOp = "currentItem" /\ it.current <= n - 1) =>
            lastRet = Value(children[it.collection][it.current + 1])

\* what the two versions answer: part_001 is done from the last item on
\* and refuses to read it, part_002 is done on the last item only
C32_IsDoneAsCoded ==
  (it.class = "list" /\ lastOp = "isDone" /\ Len(children[it.collection]) >= 1) =>
    LET n == Len(children[it.collection])
    IN /\ call.op = "part_001" => lastRet = Bool(it.current >= n - 1)
       /\ call.op = "part_002" => lastRet = Bool(it.current = n - 1)

----------------------------------------------------------------------------
\* C33: List.remove(item) of the Iterator pattern removes exactly the first
\* occurrence of item and keeps every other item in its relative order; when
\* item is not in the list, the list is unchanged.
C33_ListRemoveDeletesFirstOccurrenceOrNothing ==
  call.op = "remove" =>
    children[call.on] = IF Occurrences(call.before, call.arg) = 0 THEN call.before
                        ELSE WithoutFirst(call.before, call.arg)

\* for an item that is in the list, List.remove removes its first occurrence
C33_ListRemoveOfPresentItem ==
  (call.op = "remove" /\ Occurrences(call.before, call.arg) > 0) =>
    children[call.on] = WithoutFirst(call.before, call.arg)

\* for an item that is not in the list, List.remove removes the last item
C33_ListRemoveOfAbsentItem ==
  (call.op = "remove" /\ Occurrences(call.before, call.arg) = 0) =>
    children[call.on] = SubSeq(call.before, 1, Len(call.before) - 1)

----------------------------------------------------------------------------
\* C34: in the lazy-iterator version, over a tree whose root has at least one
\* child, netPrice() does not depend on the iteratorType of any Box.  The
\* strategy of the root alone selects the order in which the nodes are
\* visited, the strategy of a nested Box is never consulted, and every
\* assignment of strategies to the Boxes yields the same total.
C34_TotalUnderEveryAssignment ==
  (call.op = "netPrice" /\ Len(children[call.on]) >= 1) =>
    /\ call.ret = Value(ProductNetPrice * ProductsBelow(children, call.on))
    /\ \A types \in [Boxes -> IteratorTypes] :
         lazyNetPrice(children, types, call.on) = call.ret

C34_OrderByTheRootAlone ==
  it.class \in IteratorTypes =>
    /\ it.class = iteratorType[it.collection]
    /\ IsPrefix(visited, Listing(children, iteratorType[it.collection], it.collection))

C34_NetPriceIgnoresIteratorTypes == C34_TotalUnderEveryAssignment /\ C34_OrderByTheRootAlone

\* netPrice() of Big has returned 80 with Big and Medium of different
\* strategies
C34_Witness ==
  /\ call.op = "netPrice"
  /\ call.on = 1
  /\ iteratorType[1] # iteratorType[2]
  /\ call.ret = Value(80)

----------------------------------------------------------------------------
\* the nodes next() has still to return
Pending(ch, i) == Range(Remaining(ch, i))

\* C35: a lazy iterator reads the children of a nested Box at the moment
\* next() returns that Box.  A child appended to a nested Box that is still
\* to be returned will be visited, a child removed from it will not; an
\* append or a remove on a Box that next() has already returned leaves the
\* rest of the traversal as it was.
C35_NestedChildrenAreReadAtReturn ==
  [][(it.class \in IteratorTypes /\ children' # children) =>
       \A b \in Boxes \ {it.collection} :
         children'[b] # children[b] =>
           /\ b \in Range(visited) => Remaining(children', it') = Remaining(children, it)
           /\ b \in Pending(children, it) =>
                /\ \A c \in ChildSet(children', b) \ ChildSet(children, b) :
                     c \in Pending(children', it')
                /\ \A c \in ChildSet(children, b) \ ChildSet(children', b) :
                     c \notin Pending(children', it')]_vars

\* the traversal is over: Medium was returned before it lost a child or
\* gained one, so that the nodes returned are not the listing of the tree
\* as it is now
C35_Witness ==
  /\ it.class \in IteratorTypes
  /\ IterIsDone(it)
  /\ lastOp = "next"
  /\ Len(visited) >= 5
  /\ children[1] = ScenarioTree[1]
  /\ visited # Listing(children, it.class, it.collection)

\* a Product appended to Small while Small was pending has been returned
C35_WitnessAppended ==
  /\ it.class \in IteratorTypes
  /\ lastOp = "next"
  /\ children = [NaiveTestTree EXCEPT ![2] = <<0 - 1>>, ![3] = <<0 - 2>>]
  /\ lastRet = Value(0 - 2)

----------------------------------------------------------------------------
\* C36: invariant of the lazy iterators over an unmodified tree.  The stack
\* or queue holds no node twice; every node in it is a descendant of the
\* root that next() has not returned since the construction or the last
\* first(); and every descendant of the root has been returned, or is in the
\* stack or queue, or lies below a Box that is in the stack or queue.
C36_PendingNodesInvariant ==
  it.class \in IteratorTypes =>
    LET below == Descendants(children, it.collection)
    IN /\ \A j, k \in 1..Len(it.buf) : it.buf[j] = it.buf[k] => j = k
       /\ \A n \in Range(it.buf) : n \in below /\ n \notin Range(visited)
       /\ \A d \in below :
            \/ d \in Range(visited)
            \/ d \in Range(it.buf)
            \/ \E a \in Range(it.buf) \cap Boxes : d \in Descendants(children, a)

\* in the middle of a traversal: a node has been returned, a Box is pending
\* and a node below it is not scheduled yet
C36_Witness ==
  /\ it.class \in IteratorTypes
  /\ lastOp = "next"
  /\ Len(visited) >= 1
  /\ \E a \in Range(it.buf) \cap Boxes :
       \E d \in Descendants(children, a) : d \notin Range(it.buf)

----------------------------------------------------------------------------
\* C37: invariant of LazyBreadthFirstSearchIterator.  In every reachable
\* state the depths of the nodes in the queue do not decrease from the front
\* to the back, and the depth of the last node exceeds the depth of the first
\* by 1 at most.
C37_QueueDepthsAreOrdered ==
  it.class = BFS =>
    LET depth(k) == Depth(children, it.collection, it.buf[k])
    IN /\ \A j, k \in 1..Len(it.buf) : j <= k => depth(j) <= depth(k)
       /\ Len(it.buf) >= 1 => depth(Len(it.buf)) - depth(1) <= 1

\* the queue holds nodes of two levels
C37_Witness ==
  /\ it.class = BFS
  /\ lastOp = "next"
  /\ Len(it.buf) >= 2
  /\ Depth(children, it.collection, it.buf[Len(it.buf)])
       = Depth(children, it.collection, it.buf[1]) + 1

====
